---- MODULE Spec2Model ----
(***************************************************************************)
(* A model of the ITSG-33 catalog pipeline: the two extractors             *)
(* (scripts/extract-annex-3a.mjs, scripts/extract-annex-3a-html.mjs), the  *)
(* publish step and the pure helpers they rest on.                         *)
(*                                                                         *)
(* Spec       the extraction runs and the publish step over one file       *)
(*            system (data/controls and apps/web/public/api/controls).     *)
(* SpecPublish the same with the publish step.                             *)
(* SpecAlpha  parseStatementList / numberToAlpha over bounded lists.       *)
(* SpecEnh    the two enhancement parsers over bounded sections.           *)
(* SpecRel    extractRelatedControls and the related_controls field.       *)
(* SpecApi    the read API and the chat endpoint (apps/api) over a bucket. *)
(* SpecSelect selectControlIds over bounded requests and indexes.          *)
(***************************************************************************)
EXTENDS Integers, Sequences, FiniteSets, TLC

\* ------------------------------------------------------------------ bounds
\* Longest source document, in lines (PDF) / h4 headings (HTML).
MaxDocLen == 2
\* Extraction runs in one behaviour.
MaxRuns == 2
\* Publish runs in one behaviour.
MaxPublishes == 2

\* Longest <ol> handed to parseStatementList, in <li> children.
MaxItems == 3

\* ------------------------------------------------------------- vocabulary
\* A control id "AC-1" is kept as its two regex groups (family, number).
ControlIds == {[fam |-> "AC", num |-> 1], [fam |-> "SC", num |-> 2]}
ControlNames == {"ALPHA", "BETA"}

\* A source document is kept as the lines the segmenter decides on: the lines
\* after the START_MARKER line that are no table-of-contents lines (PDF), the h4
\* headings (HTML). A line is a control heading or any other line / heading.
\* AC-1 may be headed by either name, SC-2 by one.
HeadingLines ==
  {[kind |-> "h", id |-> i, name |-> n] : i \in ControlIds, n \in ControlNames}
    \ {[kind |-> "h", id |-> [fam |-> "SC", num |-> 2], name |-> "BETA"]}
OtherLine == [kind |-> "o"]
Lines == HeadingLines \cup {OtherLine}
Docs == UNION {[1..n -> Lines] : n \in 0..MaxDocLen}

VARIABLES
  \* --- data/controls (the extractors' output location)
  outDir,        \* BOOLEAN: data/controls/controls exists
  controlFiles,  \* function: id of each controls/<id>.json present -> its record
  indexFile,     \* <<>> (absent) or <<the index array>>: controls-index.json
  metadataFile,  \* <<>> (absent) or <<the metadata object>>: catalog-metadata.json
  \* --- one extraction run
  pc,            \* "idle","fetch","mkdir","write","index","metadata","done","failed"
  path,          \* "pdf" or "html": which extractor runs
  doc,           \* the source document of this run
  controls,      \* rawControls (PDF) / controls (HTML)
  index,         \* indexMap values (PDF) / index (HTML), in order
  k,             \* position of the write loop in controls
  runNo,         \* number of runs started
  failure,       \* "none","source","zero","write"
  \* --- history of the run (not program state)
  before,        \* the output location when the run started
  writes,        \* id -> number of writes of controls/<id>.json in this run
  indexWritten,  \* BOOLEAN: this run has written controls-index.json
  rerun,         \* BOOLEAN: the run before succeeded, with this extractor on this source
  last,          \* <<>> or <<[path, doc]>>: the run that has just exited, when it succeeded
  \* --- apps/web/public/api/controls (the published location) and publish
  targetDir,     \* BOOLEAN: targetRoot exists
  targetControls,\* function: id of each <id>.json present -> its record
  targetIndex,   \* <<>> or <<the index array>>: the extensionless index
  targetMetadata,\* <<>> or <<the metadata object>>: metadata.json
  pubPc,         \* "idle","mkdir","readdir","rm","index","metadata","list","copy","done","failed"
  rmPending,     \* target *.json entries still to remove (Promise.all of rm)
  cpPending,     \* source control files still to copy (Promise.all of copyFile)
  pubNo,         \* number of publish runs started
  \* --- parseStatementList
  aPc,           \* "input","parsed"
  aItems,        \* the <li> children of the list: [value, marker] each
  aLower,        \* BOOLEAN: the list is a nested (subpart) list
  aParts,        \* the ids parseStatementList gave, in order
  \* --- the enhancement parsers
  ePc,           \* "input","parsed"
  ePath,         \* "pdf" (parseEnhancements) or "html" (parseEnhancementList)
  eControl,      \* controlId: the parent control
  eLines,        \* the section's lines (PDF) / the list's <li> children (HTML)
  eOut,          \* the enhancements returned
  \* --- the cross-reference resolver
  rPc,           \* "input","resolved"
  rPath,         \* "pdf" or "html"
  rGuidance,     \* the control's supplemental guidance text, as tokens
  rSection,      \* <<>> or <<text>>: sections.related_controls joined (PDF)
  rOut,          \* <<>> (undefined) or <<ids>>: the record's related_controls
  \* --- the API worker (apps/api)
  env,           \* the bindings: DATA_PREFIX, and whether AI and MODEL_NAME are set
  bucket,        \* env.DATA: key of each object present -> the object
  request,       \* <<>> or <<the request being answered>>
  response,      \* <<>> or <<the response to it>>
  lookedUp,      \* the keys the handler asked the bucket for, in order
  selected,      \* <<>> or <<the ids handleChat got from selectControlIds>>
  \* --- selectControlIds
  sPc,           \* "input","selected"
  sQuestion,     \* the question, as tokens
  sControlIds,   \* <<>> (undefined) or <<the caller's ids>>
  sIndex,        \* the index array
  sChosen,       \* the ids returned
  \* --- the PDF text parsers: splitControls, parseSections, parseStatementParts
  tPc,           \* "input","parsed"
  tOp,           \* "split","sections","parts": the parser that runs
  tIn,           \* its input lines
  tOut,          \* what it returned
  \* --- export-assignments-csv
  xPc,           \* "input","built"
  xOp,           \* "rows" (buildRowsForControl) or "classify" (topic and category)
  xIn,           \* the control record read from controls/<id>.json / a placeholder
  xOut,          \* the rows built for it / its topic and category
  \* --- the browser UI (App)
  uMounted,      \* BOOLEAN: the component is mounted (cancelled is false)
  uLoad,         \* the two fetches of loadIndex
  uIndexState,   \* indexState
  uMetadata,     \* catalogMetadata: <<>> (null) or <<metadata>>
  uSelectedId,   \* selectedId: <<>> (null) or <<id>>
  uControl,      \* control: <<>> (null) or <<record>>
  uControlState, \* controlState
  uFetches,      \* the control fetches in flight, oldest first
  uHistory       \* window.history: the entries' control parameter and the position

outVars == <<outDir, controlFiles, indexFile, metadataFile>>
runVars == <<pc, path, doc, controls, index, k, runNo, failure, before, writes, indexWritten, rerun, last>>
pubVars == <<targetDir, targetControls, targetIndex, targetMetadata, pubPc, rmPending, cpPending, pubNo>>
alphaVars == <<aPc, aItems, aLower, aParts>>
\* the variables the pipeline (extract, publish) leaves alone
enhVars == <<ePc, ePath, eControl, eLines, eOut>>
relVars == <<rPc, rPath, rGuidance, rSection, rOut>>
apiVars == <<env, bucket, request, response, lookedUp, selected>>
selVars == <<sPc, sQuestion, sControlIds, sIndex, sChosen>>
textVars == <<tPc, tOp, tIn, tOut>>
expVars == <<xPc, xOp, xIn, xOut>>
uiVars == <<uMounted, uLoad, uIndexState, uMetadata, uSelectedId, uControl, uControlState, uFetches, uHistory>>
restVars == <<alphaVars, enhVars, relVars, apiVars, selVars, textVars, expVars, uiVars>>
vars == <<outVars, runVars, pubVars, alphaVars, enhVars, relVars, apiVars, selVars, textVars, expVars, uiVars>>

\* ---------------------------------------------------------------- helpers
Empty == [x \in {} |-> x]
\* writeFileSync / copyFile of one file of a directory
Put(dir, name, file) == [f \in DOMAIN dir \cup {name} |-> IF f = name THEN file ELSE dir[f]]
\* rm of one file of a directory
Remove(dir, name) == [f \in DOMAIN dir \ {name} |-> dir[f]]

\* ------------------------------------------------------------ PDF extractor
\* A line of the PDF text is kept as what splitControls decides on:
\*   start  a line that includes START_MARKER
\*   toc    a table-of-contents line: dot leaders and a trailing page number
\*   h      a line matching controlHeadingRegex (and no toc line)
\*   c      a line isLikelyHeadingContinuation accepts: capitals, no colon
\*   o      any other line
\* (mutant of isTocLine) no line is taken for a table-of-contents line
isTocLineNever(line) == FALSE

\* tocDots.test(line) && tocPage.test(line)
isTocLine(line) == line.kind = "toc"

\* the loop of splitControls once started: a heading closes the current
\* control and opens the next; a continuation right after a heading whose name
\* leaves a parenthesis open joins the name; other lines go to the open
\* control, or nowhere when none is open.
RECURSIVE splitControlsFrom(_, _, _)
splitControlsFrom(lines, acc, current) ==
  IF lines = <<>> THEN acc \o current
  ELSE LET line == Head(lines)
           \* more "(" than ")": of the names used, the one that opens a parenthesis
           hasUnbalancedOpenParen(name) == name = "ALPHA (ONE"
           isLikelyHeadingContinuation(l) == l.kind = "c"
       IN
    IF isTocLine(line)
    THEN splitControlsFrom(Tail(lines), acc, current)
    ELSE IF /\ current # <<>>
            /\ current[1].lines = <<>>
            /\ hasUnbalancedOpenParen(current[1].control_name)
            /\ isLikelyHeadingContinuation(line)
    THEN splitControlsFrom(Tail(lines), acc,
           <<[current[1] EXCEPT !.control_name = @ \o " " \o line.text]>>)
    ELSE IF line.kind = "h"
    THEN splitControlsFrom(Tail(lines), acc \o current,
           <<[control_id |-> line.id, control_name |-> line.name, lines |-> <<>>]>>)
    ELSE IF current # <<>>
    THEN splitControlsFrom(Tail(lines), acc, <<[current[1] EXCEPT !.lines = Append(@, line)]>>)
    ELSE splitControlsFrom(Tail(lines), acc, current)

\* `if (!started) { if (line.includes(START_MARKER)) started = true; continue; }`:
\* the loop sees the lines after the first line that includes START_MARKER,
\* none when there is no such line
splitControls(lines) ==
  LET afterStartMarker ==
        IF \E i \in DOMAIN lines : lines[i].kind = "start"
        THEN SubSeq(lines,
                    1 + CHOOSE i \in DOMAIN lines :
                          /\ lines[i].kind = "start"
                          /\ \A j \in 1..(i - 1) : lines[j].kind # "start",
                    Len(lines))
        ELSE <<>>
  IN splitControlsFrom(afterStartMarker, <<>>, <<>>)

\* the record extract() builds for one raw control; the fields parsed from the
\* block's lines (statement, enhancements, raw_text, ...) are functions of the
\* block alone and are left to the parsers' own specifications
PdfRecord(control) ==
  [control_id |-> control.control_id,
   control_name |-> control.control_name,
   family_id |-> control.control_id.fam]

\* ----------------------------------------------------------- HTML extractor
\* parseControlsFromHtml: one record per h4 that matches controlHeadingRegex.
RECURSIVE parseControlsFromHtml(_)
parseControlsFromHtml(headings) ==
  IF headings = <<>> THEN <<>>
  ELSE LET h == Head(headings) IN
    (IF h.kind = "h"
     THEN <<[control_id |-> h.id, control_name |-> h.name, family_id |-> h.id.fam,
             source_type |-> "html"]>>
     ELSE <<>>) \o parseControlsFromHtml(Tail(headings))

\* ------------------------------------------------------------------ shared
buildKeywords(controlName) == {controlName}

IndexItem(record) ==
  [control_id |-> record.control_id,
   control_name |-> record.control_name,
   family_id |-> record.family_id,
   keywords |-> buildKeywords(record.control_name)]

\* Map.prototype.set on a Map kept as the sequence of its values: an existing
\* key keeps its place and takes the new value, a new key goes last.
MapSet(m, item) ==
  IF \E i \in DOMAIN m : m[i].control_id = item.control_id
  THEN [i \in DOMAIN m |-> IF m[i].control_id = item.control_id THEN item ELSE m[i]]
  ELSE Append(m, item)

\* (mutant of ControlRecord) the record carries the time it was extracted at,
\* as catalog-metadata.json does
ControlRecordStamped(p, control, now) ==
  [control_id |-> control.control_id,
   control_name |-> control.control_name,
   family_id |-> control.control_id.fam,
   extracted_at |-> now]

\* The record written for one element of controls at time `now`: PDF builds it
\* in the loop, HTML wrote it while parsing; no field of it reads the clock.
ControlRecord(p, control, now) == IF p = "pdf" THEN PdfRecord(control) ELSE control

Parsed(p, d) == IF p = "pdf" THEN splitControls(<<[kind |-> "start"]>> \o d) ELSE parseControlsFromHtml(d)

\* (mutant of PcAfterParse) the length check is missing
PcAfterParseUnchecked(ctrls) == "mkdir"

\* `if (!rawControls.length) throw` / `if (!controls.length) throw`, before mkdirSync
PcAfterParse(ctrls) == IF Len(ctrls) = 0 THEN "failed" ELSE "mkdir"

\* (mutant of LoopDone) the loop stops one control early
LoopDoneEarly(i, ctrls) == i >= Len(ctrls)

\* the end of `for (const control of ...)`
LoopDone(i, ctrls) == i > Len(ctrls)

Location == [dir |-> outDir, files |-> controlFiles, index |-> indexFile, metadata |-> metadataFile]

\* ------------------------------------------------------------------- Init
InitOut ==
  /\ outDir = FALSE
  /\ controlFiles = Empty
  /\ indexFile = <<>>
  /\ metadataFile = <<>>

InitRun ==
  /\ pc = "idle"
  /\ path = "pdf"
  /\ doc = <<>>
  /\ controls = <<>>
  /\ index = <<>>
  /\ k = 1
  /\ runNo = 0
  /\ failure = "none"
  /\ before = [dir |-> FALSE, files |-> Empty, index |-> <<>>, metadata |-> <<>>]
  /\ writes = [i \in ControlIds |-> 0]
  /\ indexWritten = FALSE
  /\ rerun = FALSE
  /\ last = <<>>

InitPub ==
  /\ targetDir = FALSE
  /\ targetControls = Empty
  /\ targetIndex = <<>>
  /\ targetMetadata = <<>>
  /\ pubPc = "idle"
  /\ rmPending = {}
  /\ cpPending = {}
  /\ pubNo = 0

\* no list is being parsed
IdleList ==
  /\ aPc = "input"
  /\ aItems = <<>>
  /\ aLower = FALSE
  /\ aParts = <<>>

\* the parsers' and the worker's variables at rest, but for the group `active`
IdleBut(active) ==
  /\ IF active = "enh" THEN TRUE ELSE
       /\ ePc = "input"
       /\ ePath = "pdf"
       /\ eControl = [fam |-> "AC", num |-> 1]
       /\ eLines = <<>>
       /\ eOut = <<>>
  /\ IF active = "rel" THEN TRUE ELSE
       /\ rPc = "input"
       /\ rPath = "pdf"
       /\ rGuidance = <<>>
       /\ rSection = <<>>
       /\ rOut = <<>>
  /\ IF active = "api" THEN TRUE ELSE
       /\ env = [DATA_PREFIX |-> "", AI |-> FALSE]
       /\ bucket = Empty
       /\ request = <<>>
       /\ response = <<>>
       /\ lookedUp = <<>>
       /\ selected = <<>>
  /\ IF active = "sel" THEN TRUE ELSE
       /\ sPc = "input"
       /\ sQuestion = <<>>
       /\ sControlIds = <<>>
       /\ sIndex = <<>>
       /\ sChosen = <<>>
  /\ IF active = "text" THEN TRUE ELSE
       /\ tPc = "input"
       /\ tOp = "split"
       /\ tIn = <<>>
       /\ tOut = <<>>
  /\ IF active = "exp" THEN TRUE ELSE
       /\ xPc = "input"
       /\ xOp = "rows"
       /\ xIn = <<>>
       /\ xOut = <<>>
  /\ IF active = "ui" THEN TRUE ELSE
       /\ uMounted = FALSE
       /\ uLoad = <<>>
       /\ uIndexState = "idle"
       /\ uMetadata = <<>>
       /\ uSelectedId = <<>>
       /\ uControl = <<>>
       /\ uControlState = "idle"
       /\ uFetches = <<>>
       /\ uHistory = <<>>

Init == InitOut /\ InitRun /\ InitPub /\ IdleList /\ IdleBut("none")

\* ------------------------------------------------------- extraction actions
Stopped(p) == p \in {"idle", "done", "failed"}

\* `npm run extract:annex3a` / `extract:annex3a:pdf` over the source as it is now
Begin ==
  /\ pc = "idle" /\ Stopped(pubPc)
  /\ runNo < MaxRuns
  /\ \E p \in {"pdf", "html"}, d \in Docs :
       /\ path' = p
       /\ doc' = d
  /\ pc' = "fetch"
  /\ runNo' = runNo + 1
  /\ failure' = "none"
  /\ controls' = <<>>
  /\ index' = <<>>
  /\ k' = 1
  /\ before' = Location
  /\ writes' = [i \in ControlIds |-> 0]
  /\ indexWritten' = FALSE
  /\ rerun' = (last = <<[path |-> path', doc |-> doc']>>)
  /\ last' = <<>>
  /\ UNCHANGED <<outVars, pubVars, restVars>>

\* readFileSync(inputFile) / fetchSourcePage() throws
SourceFails ==
  /\ pc = "fetch"
  /\ pc' = "failed"
  /\ failure' = "source"
  /\ UNCHANGED <<path, doc, controls, index, k, runNo, before, writes, indexWritten, rerun, last>>
  /\ UNCHANGED <<outVars, pubVars, restVars>>

\* splitControls(allLines) / parseControlsFromHtml(bodyHtml), then the length check
Parse ==
  /\ pc = "fetch"
  /\ controls' = Parsed(path, doc)
  /\ pc' = PcAfterParse(controls')
  /\ failure' = IF pc' = "failed" THEN "zero" ELSE "none"
  /\ UNCHANGED <<path, doc, index, k, runNo, before, writes, indexWritten, rerun, last>>
  /\ UNCHANGED <<outVars, pubVars, restVars>>

\* mkdirSync(outputDir, {recursive: true}); then `new Map()` (PDF) or
\* `controls.map(...)` (HTML)
Mkdir ==
  /\ pc = "mkdir"
  /\ outDir' = TRUE
  /\ index' = IF path = "pdf" THEN <<>> ELSE [i \in DOMAIN controls |-> IndexItem(controls[i])]
  /\ k' = 1
  /\ pc' = IF LoopDone(1, controls) THEN "index" ELSE "write"
  /\ UNCHANGED <<path, doc, controls, runNo, failure, before, writes, indexWritten, rerun, last>>
  /\ UNCHANGED <<controlFiles, indexFile, metadataFile, pubVars, restVars>>

\* one turn of the write loop: indexMap.set (PDF) and writeFileSync of the record
WriteControl ==
  /\ pc = "write"
  /\ LET record == ControlRecord(path, controls[k], runNo) IN
       /\ index' = IF path = "pdf" THEN MapSet(index, IndexItem(record)) ELSE index
       /\ controlFiles' = Put(controlFiles, record.control_id, record)
       /\ writes' = [writes EXCEPT ![record.control_id] = @ + 1]
  /\ k' = k + 1
  /\ pc' = IF LoopDone(k + 1, controls) THEN "index" ELSE "write"
  /\ UNCHANGED <<path, doc, controls, runNo, failure, before, indexWritten, rerun, last>>
  /\ UNCHANGED <<outDir, indexFile, metadataFile, pubVars, restVars>>

\* writeFileSync(indexFile, ...)
WriteIndex ==
  /\ pc = "index"
  /\ indexFile' = <<index>>
  /\ indexWritten' = TRUE
  /\ pc' = IF path = "html" THEN "metadata" ELSE "done"
  /\ UNCHANGED <<path, doc, controls, index, k, runNo, failure, before, writes, rerun, last>>
  /\ UNCHANGED <<outDir, controlFiles, metadataFile, pubVars, restVars>>

\* writeFileSync(metadataFile, ...): extracted_at is the time of the run
WriteMetadata ==
  /\ pc = "metadata"
  /\ metadataFile' = <<[source_url |-> "SOURCE_URL", extracted_at |-> runNo]>>
  /\ pc' = "done"
  /\ UNCHANGED <<path, doc, controls, index, k, runNo, failure, before, writes, indexWritten, rerun, last>>
  /\ UNCHANGED <<outDir, controlFiles, indexFile, pubVars, restVars>>

\* a writeFileSync throws (disk full, permissions): run().catch sets exitCode 1
WriteFails ==
  /\ pc \in {"write", "index", "metadata"}
  /\ pc' = "failed"
  /\ failure' = "write"
  /\ UNCHANGED <<path, doc, controls, index, k, runNo, before, writes, indexWritten, rerun, last>>
  /\ UNCHANGED <<outVars, pubVars, restVars>>

\* the process exits: nothing of the run is left but the files
Exit ==
  /\ pc \in {"done", "failed"}
  /\ pc' = "idle"
  /\ last' = IF pc = "done" THEN <<[path |-> path, doc |-> doc]>> ELSE <<>>
  /\ path' = "pdf"
  /\ doc' = <<>>
  /\ controls' = <<>>
  /\ index' = <<>>
  /\ k' = 1
  /\ failure' = "none"
  /\ before' = Location
  /\ writes' = [i \in ControlIds |-> 0]
  /\ indexWritten' = FALSE
  /\ rerun' = FALSE
  /\ UNCHANGED <<runNo, outVars, pubVars, restVars>>

Next ==
  \/ Begin
  \/ Exit
  \/ SourceFails
  \/ Parse
  \/ Mkdir
  \/ WriteControl
  \/ WriteIndex
  \/ WriteMetadata
  \/ WriteFails

\* ----------------------------------------------------------------- publish
\* the entries of targetRoot that are files named *.json: the control files
\* and metadata.json; the index is named `index` and is not among them
TargetJsonFiles ==
  {[kind |-> "control", id |-> i] : i \in DOMAIN targetControls}
    \cup (IF targetMetadata # <<>> THEN {[kind |-> "metadata"]} ELSE {})

\* `npm run publish:controls`: mkdir(targetRoot, {recursive: true})
PublishBegin ==
  /\ pc = "idle" /\ Stopped(pubPc)
  /\ pubNo < MaxPublishes
  /\ pubNo' = pubNo + 1
  /\ targetDir' = TRUE
  /\ pubPc' = "readdir"
  /\ UNCHANGED <<targetControls, targetIndex, targetMetadata, rmPending, cpPending>>
  /\ UNCHANGED <<outVars, runVars, restVars>>

\* clearTargetControlJsonFiles: readdir(targetRoot) and the filter
PubReaddir ==
  /\ pubPc = "readdir"
  /\ rmPending' = TargetJsonFiles
  /\ pubPc' = IF rmPending' = {} THEN "index" ELSE "rm"
  /\ UNCHANGED <<targetDir, targetControls, targetIndex, targetMetadata, cpPending, pubNo>>
  /\ UNCHANGED <<outVars, runVars, restVars>>

\* one rm of the Promise.all, in any order
PubRm ==
  /\ pubPc = "rm"
  /\ \E f \in rmPending :
       /\ rmPending' = rmPending \ {f}
       /\ IF f.kind = "control"
          THEN targetControls' = Remove(targetControls, f.id) /\ UNCHANGED targetMetadata
          ELSE targetMetadata' = <<>> /\ UNCHANGED targetControls
  /\ pubPc' = IF rmPending' = {} THEN "index" ELSE "rm"
  /\ UNCHANGED <<targetDir, targetIndex, cpPending, pubNo>>
  /\ UNCHANGED <<outVars, runVars, restVars>>

\* copyFile(sourceIndex, targetIndex): ENOENT rejects publish()
PubCopyIndex ==
  /\ pubPc = "index"
  /\ IF indexFile = <<>>
     THEN pubPc' = "failed" /\ UNCHANGED targetIndex
     ELSE pubPc' = "metadata" /\ targetIndex' = indexFile
  /\ UNCHANGED <<targetDir, targetControls, targetMetadata, rmPending, cpPending, pubNo>>
  /\ UNCHANGED <<outVars, runVars, restVars>>

\* copyFile(sourceMetadata, targetMetadata): ENOENT is caught
PubCopyMetadata ==
  /\ pubPc = "metadata"
  /\ targetMetadata' = IF metadataFile = <<>> THEN targetMetadata ELSE metadataFile
  /\ pubPc' = "list"
  /\ UNCHANGED <<targetDir, targetControls, targetIndex, rmPending, cpPending, pubNo>>
  /\ UNCHANGED <<outVars, runVars, restVars>>

\* readdir(sourceControlsDir) and the filter
PubListSource ==
  /\ pubPc = "list"
  /\ IF outDir
     THEN cpPending' = DOMAIN controlFiles /\ pubPc' = "copy"
     ELSE cpPending' = {} /\ pubPc' = "failed"
  /\ UNCHANGED <<targetDir, targetControls, targetIndex, targetMetadata, rmPending, pubNo>>
  /\ UNCHANGED <<outVars, runVars, restVars>>

\* one copyFile of the Promise.all, in any order
PubCopyControl ==
  /\ pubPc = "copy"
  /\ \E i \in cpPending :
       /\ cpPending' = cpPending \ {i}
       /\ targetControls' = Put(targetControls, i, controlFiles[i])
  /\ UNCHANGED <<targetDir, targetIndex, targetMetadata, pubPc, rmPending, pubNo>>
  /\ UNCHANGED <<outVars, runVars, restVars>>

\* the Promise.all has resolved: "Published n controls"
PubFinish ==
  /\ pubPc = "copy" /\ cpPending = {}
  /\ pubPc' = "done"
  /\ UNCHANGED <<targetDir, targetControls, targetIndex, targetMetadata, rmPending, cpPending, pubNo>>
  /\ UNCHANGED <<outVars, runVars, restVars>>

Spec == Init /\ [][Next]_vars

\* extraction and publish, one script at a time
NextPublish ==
  \/ Begin
  \/ Exit
  \/ SourceFails
  \/ Parse
  \/ Mkdir
  \/ WriteControl
  \/ WriteIndex
  \/ WriteMetadata
  \/ WriteFails
  \/ PublishBegin
  \/ PubReaddir
  \/ PubRm
  \/ PubCopyIndex
  \/ PubCopyMetadata
  \/ PubListSource
  \/ PubCopyControl
  \/ PubFinish

SpecPublish == Init /\ [][NextPublish]_vars

\* ================================================================= claims
\* ------------------------------------------------------------- under Spec
IdsOf(seq) == {seq[i].control_id : i \in DOMAIN seq}
WrittenThisRun == {i \in ControlIds : writes[i] >= 1}
NoHeading(d) == \A i \in DOMAIN d : d[i].kind # "h"

\* C1: at any point of a run at which this run's controls-index.json exists,
\* every control_id it lists has its control file already written by this run.
C1_IndexAfterControls ==
  indexWritten => IdsOf(indexFile[1]) \subseteq WrittenThisRun

C1_Witness ==
  /\ pc = "done" /\ indexWritten
  /\ Cardinality(IdsOf(indexFile[1])) = 2
  /\ before.files # Empty

\* C3: when the source cannot be read or holds no control heading, the run
\* gets no further than its failure and has written nothing: no directory, no
\* control file, no index, no metadata; the output location is as it was.
C3_FatalWritesNothing ==
  (pc # "idle" /\ (failure = "source" \/ NoHeading(doc)))
    => /\ pc \in {"fetch", "failed"}
       /\ Location = before
       /\ WrittenThisRun = {}
       /\ ~indexWritten

C3_Witness ==
  /\ pc = "failed" /\ failure = "zero"
  /\ Len(doc) > 0
  /\ before.index # <<>>

\* C4 (as claimed): after a run stops at a failing write, the control files
\* present are all of this run or all of an earlier one.
C4_NoMixedVersions ==
  (pc = "failed" /\ failure = "write")
    => \/ DOMAIN controlFiles \subseteq WrittenThisRun
       \/ WrittenThisRun = {}

\* C6 (as claimed): after a successful run from an empty location the index
\* and the control files name the same ids, and each index entry agrees with
\* its control file on control_id, control_name and family_id.
C6_IndexRecordConsistent ==
  (pc = "done" /\ before.files = Empty /\ before.index = <<>>)
    => /\ IdsOf(indexFile[1]) = DOMAIN controlFiles
       /\ \A i \in DOMAIN indexFile[1] :
            LET entry == indexFile[1][i]
                record == controlFiles[entry.control_id]
            IN /\ entry.control_id = record.control_id
               /\ entry.control_name = record.control_name
               /\ entry.family_id = record.family_id

\* C7 (as claimed): the index a run writes never holds two entries with the
\* same control_id.
C7_UniqueControlId ==
  indexWritten =>
    \A i, j \in DOMAIN indexFile[1] :
      i # j => indexFile[1][i].control_id # indexFile[1][j].control_id

\* C8 (as claimed): no controls/<control_id>.json is written twice in one run.
C8_WrittenOnce == \A i \in ControlIds : writes[i] <= 1

\* the control ids of the headings of a document, in document order
HeadingIds(d) ==
  LET hs == SelectSeq(d, LAMBDA line : line.kind = "h")
  IN [i \in DOMAIN hs |-> hs[i].id]
\* a sequence without the later occurrences of each of its elements
RECURSIVE FirstOccurrences(_)
FirstOccurrences(seq) ==
  IF seq = <<>> THEN <<>>
  ELSE LET front == FirstOccurrences(SubSeq(seq, 1, Len(seq) - 1))
           x == seq[Len(seq)]
       IN IF \E i \in DOMAIN front : front[i] = x THEN front ELSE Append(front, x)

\* C9: a successful run that follows a successful run of the same extractor on
\* the same source leaves every control file and the index as the first run
\* left them, the index listing the controls in document order both times.
C9_Idempotent ==
  (pc = "done" /\ rerun)
    => /\ controlFiles = before.files
       /\ indexFile = before.index
       /\ [i \in DOMAIN indexFile[1] |-> indexFile[1][i].control_id]
            = (IF path = "pdf" THEN FirstOccurrences(HeadingIds(doc)) ELSE HeadingIds(doc))

C9_Witness ==
  /\ pc = "done" /\ rerun
  /\ Len(indexFile[1]) = 2
  /\ Len(controls) = 2

\* ------------------------------------------------------ under SpecPublish
\* C2 (as claimed): whenever the published location holds an index, it holds
\* the control file of every control_id the index lists.
C2_PublishedIndexResolves ==
  targetIndex # <<>> => IdsOf(targetIndex[1]) \subseteq DOMAIN targetControls

\* C5 (as claimed): after a successful run the control files present are
\* exactly the controls this run extracted, and after a successful publish of
\* it so are the published control files.
C5_FullReplace ==
  /\ pc = "done" => DOMAIN controlFiles = IdsOf(controls)
  /\ (pubPc = "done" /\ last # <<>>)
       => DOMAIN targetControls = IdsOf(Parsed(last[1].path, last[1].doc))

\* ------------------------------------------------------ parseStatementList
\* The value attribute of an <li>: absent, not a number, or an integer text.
OrdinalValues == (-1..3) \cup {26, 27, 28, 702, 703}
ValueAttrs ==
  {[kind |-> "absent"], [kind |-> "text"]} \cup {[kind |-> "int", n |-> n] : n \in OrdinalValues}
\* The text of an <li>: plain, or opened by a marker "(B)".
Markers == {<<>>, <<"B">>}
ListItems == {[value |-> v, marker |-> m] : v \in ValueAttrs, m \in Markers}

UpperLetters ==
  <<"A", "B", "C", "D", "E", "F", "G", "H", "I", "J", "K", "L", "M",
    "N", "O", "P", "Q", "R", "S", "T", "U", "V", "W", "X", "Y", "Z">>
LowerLetters ==
  <<"a", "b", "c", "d", "e", "f", "g", "h", "i", "j", "k", "l", "m",
    "n", "o", "p", "q", "r", "s", "t", "u", "v", "w", "x", "y", "z">>

\* String.fromCharCode((lower ? 97 : 65) + offset)
fromCharCode(lower, offset) == IF lower THEN LowerLetters[offset + 1] ELSE UpperLetters[offset + 1]

\* the while loop of numberToAlpha; it does not run for n <= 0
RECURSIVE numberToAlphaLoop(_, _, _)
numberToAlphaLoop(n, out, lower) ==
  IF n > 0
  THEN numberToAlphaLoop((n - 1) \div 26, fromCharCode(lower, (n - 1) % 26) \o out, lower)
  ELSE out

numberToAlpha(value, lower) == numberToAlphaLoop(value, "", lower)

\* Number.parseInt(attr ?? "", 10), and `Number.isFinite(rawValue) ? rawValue : index + 1`
Ordinal(item, position) == IF item.value.kind = "int" THEN item.value.n ELSE position

\* `parsedPart?.id ?? derivedId`
PartId(item, position, lower) ==
  IF item.marker # <<>> THEN item.marker[1] ELSE numberToAlpha(Ordinal(item, position), lower)

parseStatementList(items, lower) == [i \in DOMAIN items |-> PartId(items[i], i, lower)]

InitAlpha ==
  /\ InitOut /\ InitRun /\ InitPub /\ IdleBut("none")
  /\ aPc = "input"
  /\ aItems \in UNION {[1..n -> ListItems] : n \in 0..MaxItems}
  /\ aLower \in BOOLEAN
  /\ aParts = <<>>

ParseStatementList ==
  /\ aPc = "input"
  /\ aParts' = parseStatementList(aItems, aLower)
  /\ aPc' = "parsed"
  /\ UNCHANGED <<aItems, aLower, outVars, runVars, pubVars, enhVars, relVars, apiVars, selVars, textVars, expVars, uiVars>>

NextAlpha ==
  \/ ParseStatementList

SpecAlpha == InitAlpha /\ [][NextAlpha]_vars

\* -------------------------------------------------------- under SpecAlpha
Unmarked == {i \in DOMAIN aItems : aItems[i].marker = <<>>}

\* C10 (as claimed): over every ordinal a list item can carry the derived id is
\* the bijective base-26 numeral: 1 gives A, 2 gives B, 26 gives Z, 27 gives
\* AA (lowercase in a subpart list), every derived id is non-empty, distinct
\* ordinals give distinct ids, and three items with neither marker nor value
\* get A, B, C in order.
C10_OrdinalMapping ==
  aPc = "parsed" =>
    /\ \A i \in Unmarked :
         LET n == Ordinal(aItems[i], i) IN
         /\ aParts[i] # ""
         /\ n = 1 => aParts[i] = (IF aLower THEN "a" ELSE "A")
         /\ n = 2 => aParts[i] = (IF aLower THEN "b" ELSE "B")
         /\ n = 26 => aParts[i] = (IF aLower THEN "z" ELSE "Z")
         /\ n = 27 => aParts[i] = (IF aLower THEN "aa" ELSE "AA")
    /\ \A i, j \in Unmarked :
         Ordinal(aItems[i], i) # Ordinal(aItems[j], j) => aParts[i] # aParts[j]
    /\ (Len(aItems) = 3 /\ \A i \in DOMAIN aItems :
                             aItems[i] = [value |-> [kind |-> "absent"], marker |-> <<>>])
         => aParts = (IF aLower THEN <<"a", "b", "c">> ELSE <<"A", "B", "C">>)

\* ====================================================== enhancement parsers
\* Longest "Control Enhancements" section handed to parseEnhancements, in lines.
MaxEnhLines == 3
\* Longest <ol> handed to parseEnhancementList, in <li> children.
MaxEnhItems == 2

\* A line is kept as the shape the parsers' regular expressions decide on.
\*   paren  "(" digits ")" [blank] text      "(1) TITLE", "(1)TITLE", "(1)"
\*   guid   "Enhancement Supplemental Guidance" [":"] [blank body]
\*   plain  any other text
\* Texts carry no outer blanks: the lines reach the parsers trimmed.
EnhDigits == {"1", "2"}
PlainLine == [kind |-> "plain", text |-> "STMT"]
EnhLines ==
  LET ParenLines ==
        {[kind |-> "paren", digits |-> d, spaced |-> g, text |-> t] :
           d \in EnhDigits, g \in BOOLEAN, t \in {"", "TITLE"}}
          \ {[kind |-> "paren", digits |-> d, spaced |-> TRUE, text |-> ""] : d \in EnhDigits}
      GuidLines ==
        {[kind |-> "guid", colon |-> c, body |-> b] : c \in BOOLEAN, b \in {"", "GUIDE"}}
  IN ParenLines \cup GuidLines \cup {PlainLine}

\* the text of a line
LineText(line) ==
  IF line.kind = "paren"
  THEN "(" \o line.digits \o ")" \o (IF line.spaced THEN " " ELSE "") \o line.text
  ELSE IF line.kind = "guid"
  THEN "Enhancement Supplemental Guidance" \o (IF line.colon THEN ":" ELSE "")
         \o (IF line.body = "" THEN "" ELSE " " \o line.body)
  ELSE line.text

\* `${controlId}(${number})`, kept as its two parts
EnhancementId(controlId, number) == [control |-> controlId, number |-> number]

\* `${a} ${b}`.trim() for texts without outer blanks
JoinTrim(a, b) == IF a = "" THEN b ELSE IF b = "" THEN a ELSE a \o " " \o b

\* Array.prototype.join(" ")
RECURSIVE JoinLines(_)
JoinLines(parts) ==
  IF parts = <<>> THEN "" ELSE
  IF Len(parts) = 1 THEN parts[1] ELSE parts[1] \o " " \o JoinLines(Tail(parts))

\* ------------------------------------------------- PDF: parseEnhancements
\* enhancementHeaderRegex /^\((\d+)\)\s+(.+)$/ : blank(s) after ")" and a text
HeaderMatchPdf(line) == line.kind = "paren" /\ line.spaced /\ line.text # ""

\* line.split(":").slice(1).join(":").trim() of a guidance line
AfterColon(line) == IF line.colon THEN line.body ELSE ""

RECURSIVE parseEnhancementsFrom(_, _, _, _)
parseEnhancementsFrom(lines, controlId, enhancements, current) ==
  IF lines = <<>> THEN enhancements \o current
  ELSE LET line == Head(lines)
           rest == Tail(lines) IN
    IF HeaderMatchPdf(line)
    THEN parseEnhancementsFrom(rest, controlId, enhancements \o current,
           <<[enhancement_id |-> EnhancementId(controlId, line.digits),
              title |-> <<line.text>>,
              statement |-> "",
              supplemental_guidance |-> <<>>]>>)
    ELSE IF current = <<>>
    THEN parseEnhancementsFrom(rest, controlId, enhancements, current)
    ELSE IF line.kind = "guid"
    THEN parseEnhancementsFrom(rest, controlId, enhancements,
           IF AfterColon(line) # ""
           THEN <<[current[1] EXCEPT !.supplemental_guidance = <<AfterColon(line)>>]>>
           ELSE current)
    ELSE IF current[1].supplemental_guidance # <<>>
    THEN parseEnhancementsFrom(rest, controlId, enhancements,
           <<[current[1] EXCEPT !.supplemental_guidance = <<JoinTrim(@[1], LineText(line))>>]>>)
    ELSE parseEnhancementsFrom(rest, controlId, enhancements,
           <<[current[1] EXCEPT !.statement = JoinTrim(@, LineText(line))]>>)

\* an entry whose enhancement_id comes again later is dropped
RECURSIVE LastWins(_)
LastWins(entries) ==
  IF entries = <<>> THEN <<>>
  ELSE IF \E j \in 2..Len(entries) : entries[j].enhancement_id = entries[1].enhancement_id
  THEN LastWins(Tail(entries))
  ELSE <<entries[1]>> \o LastWins(Tail(entries))

\* (mutant of parseEnhancements) a heading that repeats a number overwrites
\* the entry of the earlier heading
parseEnhancementsLastWins(lines, controlId) ==
  LastWins(parseEnhancementsFrom(lines, controlId, <<>>, <<>>))

parseEnhancements(lines, controlId) == parseEnhancementsFrom(lines, controlId, <<>>, <<>>)

\* ---------------------------------------------- HTML: parseEnhancementList
\* An <li> is kept as its value attribute, its own text (what is left of it
\* without its <p> and <ol> children, cleaned), its <p> children and the <li>
\* children of its nested <ol>.
EnhItems ==
  LET EnhValues == {[kind |-> "absent"], [kind |-> "int", n |-> 3]}
      EnhHeaders ==
        {[kind |-> "paren", digits |-> d, spaced |-> TRUE, text |-> "TITLE"] : d \in EnhDigits}
          \cup {[kind |-> "paren", digits |-> "1", spaced |-> FALSE, text |-> "TITLE"],
                [kind |-> "paren", digits |-> "1", spaced |-> TRUE, text |-> "A | B"],
                [kind |-> "paren", digits |-> "1", spaced |-> FALSE, text |-> ""],
                [kind |-> "plain", text |-> "TITLE"],
                [kind |-> "plain", text |-> ""]}
      GuidBody == [kind |-> "guid", colon |-> TRUE, body |-> "GUIDE"]
      GuidBare == [kind |-> "guid", colon |-> TRUE, body |-> ""]
      EnhBodies ==
        {[paragraphs |-> <<>>, nested |-> <<>>],
         [paragraphs |-> <<PlainLine>>, nested |-> <<>>],
         [paragraphs |-> <<>>, nested |-> <<"NESTED">>],
         [paragraphs |-> <<GuidBody, PlainLine>>, nested |-> <<"NESTED">>],
         [paragraphs |-> <<PlainLine, GuidBare, PlainLine>>, nested |-> <<>>]}
  IN {[value |-> v, header |-> h, paragraphs |-> b.paragraphs, nested |-> b.nested] :
        v \in EnhValues, h \in EnhHeaders, b \in EnhBodies}

\* enhancementHeaderRegex /^\((\d+)\)\s*(.+)$/ : a text after ")", blank or not
HeaderMatchHtml(header) == header.kind = "paren" /\ header.text # ""

\* Number.isFinite(rawValue) ? rawValue : index + 1 (index counts from 0)
EnhNumber(item, position) == IF item.value.kind = "int" THEN item.value.n ELSE position

\* (mutant of HeaderNumber) the number is always the list ordinal
HeaderNumberOrdinal(header, number) == ToString(number)

\* headerMatch?.[1] ?? number, as it is printed in the template string
HeaderNumber(header, number) ==
  IF HeaderMatchHtml(header) THEN header.digits ELSE ToString(number)

\* headerRaw.includes("|")
HasPipe(text) == text = "A | B"

\* line.replace(/^Enhancement Supplemental Guidance\s*:*/i, "").trim()
AfterGuidanceLabel(line) == line.body

\* the paragraphs.each callback: <<statementParts, guidanceParts>> after `lines`
RECURSIVE enhParagraphs(_, _, _)
enhParagraphs(lines, statementParts, guidanceParts) ==
  IF lines = <<>> THEN <<statementParts, guidanceParts>>
  ELSE LET line == Head(lines) IN
    IF line.kind = "guid"
    THEN enhParagraphs(Tail(lines), statementParts,
           IF AfterGuidanceLabel(line) # ""
           THEN Append(guidanceParts, AfterGuidanceLabel(line)) ELSE guidanceParts)
    ELSE IF guidanceParts # <<>>
    THEN enhParagraphs(Tail(lines), statementParts, Append(guidanceParts, LineText(line)))
    ELSE enhParagraphs(Tail(lines), Append(statementParts, LineText(line)), guidanceParts)

\* the record parseEnhancementList pushes for the <li> at `position` (from 1)
EnhancementOfItem(item, position, controlId) ==
  LET headerRaw == LineText(item.header)
      title == IF HeaderMatchHtml(item.header) THEN item.header.text ELSE headerRaw
      parts == enhParagraphs(item.paragraphs, item.nested, <<>>)
      statementParts == parts[1]
      guidanceParts == parts[2]
  IN [enhancement_id |->
        EnhancementId(controlId, HeaderNumber(item.header, EnhNumber(item, position))),
      title |-> IF title = "" THEN <<>> ELSE <<title>>,
      statement |->
        IF statementParts # <<>> THEN JoinLines(statementParts)
        ELSE IF item.paragraphs = <<>> /\ headerRaw # "" /\ ~HasPipe(item.header.text)
        THEN headerRaw ELSE "",
      supplemental_guidance |->
        IF guidanceParts # <<>> THEN <<JoinLines(guidanceParts)>> ELSE <<>>]

parseEnhancementList(items, controlId) ==
  [i \in DOMAIN items |-> EnhancementOfItem(items[i], i, controlId)]

\* ------------------------------------------------------------------ SpecEnh
InitEnh ==
  /\ InitOut /\ InitRun /\ InitPub /\ IdleList /\ IdleBut("enh")
  /\ ePc = "input"
  /\ ePath \in {"pdf", "html"}
  /\ eControl \in ControlIds
  /\ eLines \in IF ePath = "pdf"
                THEN UNION {[1..n -> EnhLines] : n \in 0..MaxEnhLines}
                ELSE UNION {[1..n -> EnhItems] : n \in 0..MaxEnhItems}
  /\ eOut = <<>>

\* parseEnhancements(sections.enhancements ?? [], control.control_id)
ParseEnhancements ==
  /\ ePc = "input" /\ ePath = "pdf"
  /\ eOut' = parseEnhancements(eLines, eControl)
  /\ ePc' = "parsed"
  /\ UNCHANGED <<ePath, eControl, eLines>>
  /\ UNCHANGED <<outVars, runVars, pubVars, alphaVars, relVars, apiVars, selVars, textVars, expVars, uiVars>>

\* parseEnhancementList($, nodeEl, controlId)
ParseEnhancementList ==
  /\ ePc = "input" /\ ePath = "html"
  /\ eOut' = parseEnhancementList(eLines, eControl)
  /\ ePc' = "parsed"
  /\ UNCHANGED <<ePath, eControl, eLines>>
  /\ UNCHANGED <<outVars, runVars, pubVars, alphaVars, relVars, apiVars, selVars, textVars, expVars, uiVars>>

NextEnh ==
  \/ ParseEnhancements
  \/ ParseEnhancementList

SpecEnh == InitEnh /\ [][NextEnh]_vars

\* ---------------------------------------------------------- under SpecEnh
\* a heading of the shape "(n) T": a number in parentheses, a blank, a title
IsHeading(line) == line.kind = "paren" /\ line.spaced /\ line.text # ""
\* the headings of a PDF section, in order
Headings(lines) == SelectSeq(lines, IsHeading)
\* the numerals an enhancement number can be: digits of a heading, a value
\* attribute or a list position
Numerals == EnhDigits \cup {ToString(n) : n \in 1..(MaxEnhItems + 3)}

\* C11: every heading "(n) T" under parent control C yields an entry whose
\* enhancement_id is C(n), n being the heading's digits, and whose title is T
\* (PDF: the j-th heading gives the j-th entry; HTML: the <li> with that
\* heading gives the entry at its position); and every enhancement_id
\* returned is {control_id}({number}) with the parent's control_id.
C11_EnhancementId ==
  ePc = "parsed" =>
    /\ ePath = "pdf" =>
         /\ Len(eOut) = Len(Headings(eLines))
         /\ \A j \in DOMAIN eOut :
              /\ eOut[j].enhancement_id =
                   [control |-> eControl, number |-> Headings(eLines)[j].digits]
              /\ eOut[j].title = <<Headings(eLines)[j].text>>
    /\ ePath = "html" =>
         /\ Len(eOut) = Len(eLines)
         /\ \A i \in DOMAIN eLines :
              IsHeading(eLines[i].header) =>
                /\ eOut[i].enhancement_id =
                     [control |-> eControl, number |-> eLines[i].header.digits]
                /\ eOut[i].title = <<eLines[i].header.text>>
    /\ \A j \in DOMAIN eOut :
         /\ eOut[j].enhancement_id.control = eControl
         /\ eOut[j].enhancement_id.number \in Numerals

\* an HTML list whose second <li> is headed "(1) TITLE" and carries value 3,
\* parsed under SC-2
C11_Witness ==
  /\ ePc = "parsed" /\ ePath = "html" /\ eControl = [fam |-> "SC", num |-> 2]
  /\ Len(eLines) = 2
  /\ eLines[2].header = [kind |-> "paren", digits |-> "1", spaced |-> TRUE, text |-> "TITLE"]
  /\ eLines[2].value = [kind |-> "int", n |-> 3]
  /\ eOut[2].enhancement_id = [control |-> [fam |-> "SC", num |-> 2], number |-> "1"]

\* the positions of the headings of a PDF section, and the lines that follow
\* the j-th heading up to the next heading
HeadingPositions(lines) == {i \in DOMAIN lines : IsHeading(lines[i])}
HeadingPosition(lines, j) ==
  CHOOSE i \in HeadingPositions(lines) :
    Cardinality({h \in HeadingPositions(lines) : h <= i}) = j
Segment(lines, j) ==
  LET from == HeadingPosition(lines, j)
      later == {h \in HeadingPositions(lines) : h > from}
      to == IF later = {} THEN Len(lines) ELSE HeadingPosition(lines, j + 1) - 1
  IN SubSeq(lines, from + 1, to)
\* the texts of lines
Texts(lines) == [i \in DOMAIN lines |-> LineText(lines[i])]
\* the first "Enhancement Supplemental Guidance" line of an enhancement's
\* lines, 0 when there is none
FirstGuidance(seg) ==
  IF \E i \in DOMAIN seg : seg[i].kind = "guid"
  THEN CHOOSE i \in DOMAIN seg :
         seg[i].kind = "guid" /\ \A m \in 1..(i - 1) : seg[m].kind # "guid"
  ELSE 0
\* an entry built from the lines `seg` of one enhancement (after `ahead`,
\* the statement lines collected ahead of them) keeps the guidance mode: its
\* statement is made of the lines ahead of the first guidance line only,
\* and the text after the label and the later lines make its guidance
GuidanceModeKept(seg, ahead, entry) ==
  LET g == FirstGuidance(seg)
      later == SubSeq(seg, g + 1, Len(seg))
      label == IF seg[g].body = "" THEN <<>> ELSE <<seg[g].body>>
  IN g # 0 =>
       /\ entry.statement = JoinLines(ahead \o Texts(SubSeq(seg, 1, g - 1)))
       /\ (\A i \in DOMAIN later : later[i].kind # "guid") =>
            entry.supplemental_guidance =
              (IF label \o Texts(later) = <<>> THEN <<>>
               ELSE <<JoinLines(label \o Texts(later))>>)

\* C23 (as claimed): once an "Enhancement Supplemental Guidance" line has been
\* seen for an enhancement, with or without text after its optional colon,
\* every later line of that enhancement goes to supplemental_guidance and
\* none to statement; the next heading starts again in statement mode.
C23_GuidanceMode ==
  ePc = "parsed" =>
    /\ ePath = "pdf" =>
         \A j \in DOMAIN eOut : GuidanceModeKept(Segment(eLines, j), <<>>, eOut[j])
    /\ ePath = "html" =>
         \A i \in DOMAIN eOut :
           GuidanceModeKept(eLines[i].paragraphs, eLines[i].nested, eOut[i])

\* C24 (as claimed): no two enhancements returned for one control carry the
\* same enhancement_id.
C24_EnhancementIdUnique ==
  ePc = "parsed" =>
    \A i, j \in DOMAIN eOut :
      eOut[i].enhancement_id = eOut[j].enhancement_id => i = j

\* C25: parseEnhancements returns one entry per line matching the heading
\* pattern, in document order and with that heading's number and title, also
\* when headings repeat a number; the lines ahead of the first heading change
\* nothing: the result is the result for the section without them, and empty
\* when the section has no heading.
C25_OneEntryPerHeading ==
  (ePc = "parsed" /\ ePath = "pdf") =>
    /\ Len(eOut) = Cardinality(HeadingPositions(eLines))
    /\ \A j \in DOMAIN eOut :
         LET h == eLines[HeadingPosition(eLines, j)] IN
         /\ eOut[j].enhancement_id.number = h.digits
         /\ eOut[j].title = <<h.text>>
    /\ HeadingPositions(eLines) = {} => eOut = <<>>
    /\ HeadingPositions(eLines) # {} =>
         eOut = parseEnhancements(
                  SubSeq(eLines, HeadingPosition(eLines, 1), Len(eLines)), eControl)

\* a line of preamble, then two headings "(1) TITLE": two entries AC-1(1)
C25_Witness ==
  /\ ePc = "parsed" /\ ePath = "pdf" /\ eControl = [fam |-> "AC", num |-> 1]
  /\ eLines = <<PlainLine,
                [kind |-> "paren", digits |-> "1", spaced |-> TRUE, text |-> "TITLE"],
                [kind |-> "paren", digits |-> "1", spaced |-> TRUE, text |-> "TITLE"]>>
  /\ Len(eOut) = 2
  /\ eOut[1].enhancement_id = eOut[2].enhancement_id

\* ================================================ cross-reference resolver
\* Longest supplemental guidance text, in tokens.
MaxTextLen == 4
\* Longest related-controls section text (PDF), in tokens.
MaxSectionLen == 2

\* A text is kept as the tokens the resolver's regular expressions decide on:
\*   label   "Related controls:"
\*   period  "."
\*   id      a control id, written "AC-1" or, as PDF text has it, "AC - 1"
\*   word    any other prose without a period
\* A period is written directly after the token before it; other tokens are
\* separated by one blank.
RelTokens ==
  {[kind |-> "label"], [kind |-> "period"], [kind |-> "word"],
   [kind |-> "id", fam |-> "AC", num |-> 1, spaced |-> FALSE],
   [kind |-> "id", fam |-> "SC", num |-> 2, spaced |-> FALSE],
   [kind |-> "id", fam |-> "AC", num |-> 1, spaced |-> TRUE]}
\* sections.related_controls: what follows the section header parseSections
\* has already taken off
SectionTokens ==
  {[kind |-> "label"],
   [kind |-> "id", fam |-> "AC", num |-> 1, spaced |-> FALSE],
   [kind |-> "id", fam |-> "SC", num |-> 2, spaced |-> FALSE]}

Min(S) == CHOOSE x \in S : \A y \in S : x <= y
Labels(text) == {i \in DOMAIN text : text[i].kind = "label"}
Periods(text) == {j \in DOMAIN text : text[j].kind = "period"}

\* text.match(relatedControlsRegex), /related controls\s*:\s*([^\.]+(?:\.|$))/i :
\* <<>> (no match) or <<group 1>>. The leftmost label followed by at least one
\* character that is no period; the group runs to the first period or the end.
relatedMatchPdf(text) ==
  LET starts == {i \in Labels(text) : i < Len(text) /\ text[i + 1].kind # "period"} IN
  IF starts = {} THEN <<>>
  ELSE LET i == Min(starts)
           ends == {j \in Periods(text) : j > i}
           e == IF ends = {} THEN Len(text) + 1 ELSE Min(ends)
       IN <<SubSeq(text, i + 1, e - 1)>>

\* text.match(/Related controls:\s*(.+?)\./i): <<>> or <<group 1>>. The leftmost
\* label followed by at least one character, of any kind, and then a period;
\* the group is the shortest such run.
relatedMatchHtml(text) ==
  LET starts == {i \in Labels(text) : \E j \in Periods(text) : j > i + 1} IN
  IF starts = {} THEN <<>>
  ELSE LET i == Min(starts)
           e == Min({j \in Periods(text) : j > i + 1})
       IN <<SubSeq(text, i + 1, e - 1)>>

\* controlIdRegex: PDF /\b([A-Z]{2})\s*-\s*(\d{1,3})\b/g, HTML /\b([A-Z]{2})-(\d{1,3})\b/g
ControlIdMatch(p, token) == token.kind = "id" /\ (p = "pdf" \/ ~token.spaced)

\* normalizeControlId / `${match[1]}-${match[2]}`
NormalizeControlId(token) == [fam |-> token.fam, num |-> token.num]

\* the exec loop over group 1: the ids pushed, in order
RECURSIVE ControlIdsIn(_, _)
ControlIdsIn(p, group) ==
  IF group = <<>> THEN <<>>
  ELSE (IF ControlIdMatch(p, Head(group)) THEN <<NormalizeControlId(Head(group))>> ELSE <<>>)
         \o ControlIdsIn(p, Tail(group))

\* (mutant of SetOf) the ids as pushed
KeepAll(ids) == ids

\* Array.from(new Set(ids)): first occurrences, in insertion order
RECURSIVE SetOf(_)
SetOf(ids) ==
  IF ids = <<>> THEN <<>>
  ELSE LET init == SetOf(SubSeq(ids, 1, Len(ids) - 1))
           x == ids[Len(ids)]
       IN IF \E i \in DOMAIN init : init[i] = x THEN init ELSE Append(init, x)

extractRelatedControls(p, text) ==
  LET match == IF p = "pdf" THEN relatedMatchPdf(text) ELSE relatedMatchHtml(text) IN
  IF match = <<>> THEN <<>> ELSE SetOf(ControlIdsIn(p, match[1]))

\* the record's related_controls: <<>> is undefined (the field is left out)
RelatedControlsField(p, guidance, section) ==
  LET relatedControls ==
        IF p = "pdf"
        THEN SetOf(extractRelatedControls(p, guidance)
                     \o (IF section = <<>> THEN <<>>
                         ELSE extractRelatedControls(p, section[1])))
        ELSE extractRelatedControls(p, guidance)
  IN IF Len(relatedControls) > 0 THEN <<relatedControls>> ELSE <<>>

\* ------------------------------------------------------------------ SpecRel
InitRel ==
  /\ InitOut /\ InitRun /\ InitPub /\ IdleList /\ IdleBut("rel")
  /\ rPc = "input"
  /\ rPath \in {"pdf", "html"}
  /\ rGuidance \in UNION {[1..n -> RelTokens] : n \in 0..MaxTextLen}
  /\ rSection \in IF rPath = "pdf"
                  THEN {<<>>} \cup {<<t>> : t \in UNION {[1..n -> SectionTokens] : n \in 0..MaxSectionLen}}
                  ELSE {<<>>}
  /\ rOut = <<>>

\* extract(): relatedControls of one raw control, and the record's field
ResolvePdf ==
  /\ rPc = "input" /\ rPath = "pdf"
  /\ rOut' = RelatedControlsField("pdf", rGuidance, rSection)
  /\ rPc' = "resolved"
  /\ UNCHANGED <<rPath, rGuidance, rSection>>
  /\ UNCHANGED <<outVars, runVars, pubVars, alphaVars, enhVars, apiVars, selVars, textVars, expVars, uiVars>>

\* parseControlsFromHtml(): relatedControls of one control, and the record's field
ResolveHtml ==
  /\ rPc = "input" /\ rPath = "html"
  /\ rOut' = RelatedControlsField("html", rGuidance, rSection)
  /\ rPc' = "resolved"
  /\ UNCHANGED <<rPath, rGuidance, rSection>>
  /\ UNCHANGED <<outVars, runVars, pubVars, alphaVars, enhVars, apiVars, selVars, textVars, expVars, uiVars>>

NextRel ==
  \/ ResolvePdf
  \/ ResolveHtml

SpecRel == InitRel /\ [][NextRel]_vars

\* ---------------------------------------------------------- under SpecRel
\* the related_controls list of the record ([] when the field is left out)
Related == IF rOut = <<>> THEN <<>> ELSE rOut[1]
\* the clause of a text: the tokens between its first "Related controls:"
\* label and the first period after that label; none without such a period
ClausePositions(text) ==
  IF Labels(text) = {} \/ ~\E j \in Periods(text) : j > Min(Labels(text)) THEN {}
  ELSE {q \in DOMAIN text :
          /\ q > Min(Labels(text))
          /\ q < Min({j \in Periods(text) : j > Min(Labels(text))})}
\* a token that is a control id under the path's control-id pattern (PDF text
\* may carry blanks around the hyphen, HTML text may not)
IsControlId(p, token) == token.kind = "id" /\ (p = "pdf" \/ ~token.spaced)
\* the position lies in a labelled clause: after a label, with no period between
InLabelledClause(text, q) ==
  \E i \in Labels(text) : i < q /\ ~\E j \in Periods(text) : i < j /\ j < q
\* the ids that occur as control-id tokens inside a labelled clause of a text
LabelledIds(p, text) ==
  {[fam |-> text[q].fam, num |-> text[q].num] :
     q \in {x \in DOMAIN text : IsControlId(p, text[x]) /\ InLabelledClause(text, x)}}

\* C12: when the guidance has a "Related controls:" clause, related_controls
\* holds every control id of the clause, in canonical XX-N form, and holds no
\* id twice; in the PDF path the union with the ids of the related-controls
\* section holds no id twice either.
C12_RelatedControlsDedup ==
  rPc = "resolved" =>
    /\ \A q \in ClausePositions(rGuidance) :
         IsControlId(rPath, rGuidance[q]) =>
           \E i \in DOMAIN Related :
             Related[i] = [fam |-> rGuidance[q].fam, num |-> rGuidance[q].num]
    /\ \A i, j \in DOMAIN Related : i # j => Related[i] # Related[j]
    /\ \A i \in DOMAIN Related : Related[i] \in ControlIds

\* a PDF control whose guidance clause names AC-1 twice (once as "AC - 1")
\* and whose related-controls section names AC-1 again
C12_Witness ==
  /\ rPc = "resolved" /\ rPath = "pdf"
  /\ \E a, b \in ClausePositions(rGuidance) :
       /\ a # b
       /\ IsControlId("pdf", rGuidance[a]) /\ IsControlId("pdf", rGuidance[b])
       /\ rGuidance[a].fam = rGuidance[b].fam /\ rGuidance[a].num = rGuidance[b].num
       /\ rGuidance[a].spaced # rGuidance[b].spaced
  /\ rSection # <<>>
  /\ extractRelatedControls("pdf", rSection[1]) = <<[fam |-> "AC", num |-> 1]>>
  /\ Related = <<[fam |-> "AC", num |-> 1]>>

\* the order of control ids as strings: by family, then by number (the
\* numbers of the vocabulary have one digit)
IdBefore(a, b) == (a.fam = b.fam /\ a.num < b.num) \/ (a.fam = "AC" /\ b.fam = "SC")

\* C13 (as claimed): the related_controls list of every record is sorted, so
\* its order does not depend on the order of the ids in the prose.
C13_RelatedControlsSorted ==
  rPc = "resolved" =>
    \A i, j \in DOMAIN Related : i < j => IdBefore(Related[i], Related[j])

\* C14 (as claimed): without a "Related controls:" label the result is empty,
\* and every id of the result is a control-id token of a labelled clause: no
\* id-shaped token before the label or after the period ending the clause
\* gets into the result.
C14_OnlyLabelledClause ==
  rPc = "resolved" =>
    /\ (Labels(rGuidance) = {} /\ (rSection = <<>> \/ Labels(rSection[1]) = {}))
         => rOut = <<>>
    /\ \A i \in DOMAIN Related :
         \/ Related[i] \in LabelledIds(rPath, rGuidance)
         \/ rSection # <<>> /\ Related[i] \in LabelledIds(rPath, rSection[1])

\* ======================================================== selectControlIds
\* Longest question, in tokens.
MaxQuestionLen == 3
\* Longest control_ids array of a request.
MaxCallerIds == 2
\* Longest controls-index.json, in items.
MaxIndexLen == 2
\* limit = 6
Limit == 6

\* A question is kept as the tokens extractControlIds and tokenize decide on:
\* id-shaped tokens "AC-1", "ac-1", "SC-2", "AC-9" and words.
QuestionTokens ==
  {[kind |-> "id", fam |-> "AC", num |-> 1], [kind |-> "id", fam |-> "ac", num |-> 1],
   [kind |-> "id", fam |-> "SC", num |-> 2], [kind |-> "id", fam |-> "AC", num |-> 9],
   [kind |-> "word", text |-> "alpha"], [kind |-> "word", text |-> "what"]}
\* The ids a caller can send: "AC-1", " sc-2 " (blanks around it), "ZZ-9".
CallerIds ==
  {[fam |-> "AC", num |-> 1, blanks |-> FALSE], [fam |-> "sc", num |-> 2, blanks |-> TRUE],
   [fam |-> "ZZ", num |-> 9, blanks |-> FALSE]}
\* The items an extractor can have written to the index.
IndexItems ==
  {IndexItem([control_id |-> i, control_name |-> "ALPHA", family_id |-> i.fam]) : i \in ControlIds}
Indexes == UNION {[1..n -> IndexItems] : n \in 0..MaxIndexLen}

\* String.prototype.toUpperCase / toLowerCase over the vocabulary
ToUpper(t) == IF t = "ac" THEN "AC" ELSE IF t = "sc" THEN "SC" ELSE t
ToLower(t) ==
  IF t = "AC" THEN "ac" ELSE IF t = "SC" THEN "sc" ELSE IF t = "ZZ" THEN "zz"
  ELSE IF t = "ALPHA" THEN "alpha" ELSE IF t = "BETA" THEN "beta" ELSE t

\* id.trim().toUpperCase(): the blanks go, the letters are raised
normalizeControlId(id) == [fam |-> ToUpper(id.fam), num |-> id.num]

\* text.toUpperCase().match(/\b[A-Z]{2}-\d{1,3}\b/g), through a Set
RECURSIVE questionIds(_)
questionIds(question) ==
  IF question = <<>> THEN <<>>
  ELSE (IF Head(question).kind = "id"
        THEN <<[fam |-> ToUpper(Head(question).fam), num |-> Head(question).num]>>
        ELSE <<>>) \o questionIds(Tail(question))

extractControlIds(question) == SetOf(questionIds(question))

\* canonical.get(norm): <<>> (undefined) or <<the control_id of the last item
\* whose raised control_id is norm>>
canonicalGet(idx, norm) ==
  LET hits == {i \in DOMAIN idx : normalizeControlId(idx[i].control_id) = norm} IN
  IF hits = {} THEN <<>>
  ELSE <<idx[CHOOSE i \in hits : \A j \in hits : j <= i].control_id>>

\* add(id) for each id of `ids`, in order, onto `chosen`
RECURSIVE addAll(_, _, _)
addAll(chosen, ids, idx) ==
  IF ids = <<>> THEN chosen
  ELSE LET canonicalId == canonicalGet(idx, normalizeControlId(Head(ids))) IN
    addAll(IF canonicalId # <<>> /\ ~\E i \in DOMAIN chosen : chosen[i] = canonicalId[1]
           THEN Append(chosen, canonicalId[1]) ELSE chosen,
           Tail(ids), idx)

\* new Set(tokenize(question)): the lower-case runs of letters and digits
tokenize(question) ==
  UNION {IF question[q].kind = "id"
         THEN {ToLower(question[q].fam), ToString(question[q].num)}
         ELSE {question[q].text} : q \in DOMAIN question}

\* the score one term adds: 3 when the lower-case question includes the
\* lower-case term, 1 for every token of the term among the question's tokens
idTermScore(question, id) ==
  (IF \E q \in DOMAIN question :
        /\ question[q].kind = "id"
        /\ ToLower(question[q].fam) = ToLower(id.fam) /\ question[q].num = id.num
   THEN 3 ELSE 0)
  + (IF ToLower(id.fam) \in tokenize(question) THEN 1 ELSE 0)
  + (IF ToString(id.num) \in tokenize(question) THEN 1 ELSE 0)
wordTermScore(question, term) ==
  (IF \E q \in DOMAIN question : question[q].kind = "word" /\ question[q].text = ToLower(term)
   THEN 3 ELSE 0)
  + (IF ToLower(term) \in tokenize(question) THEN 1 ELSE 0)

RECURSIVE wordTermsScore(_, _)
wordTermsScore(question, terms) ==
  IF terms = {} THEN 0
  ELSE LET t == CHOOSE x \in terms : TRUE IN
    wordTermScore(question, t) + wordTermsScore(question, terms \ {t})

\* terms: control_id, control_name, aliases (none are ever written), keywords
scoreControl(question, item) ==
  idTermScore(question, item.control_id)
    + wordTermScore(question, item.control_name)
    + wordTermsScore(question, item.keywords)

\* step 3: the positive-scoring items by falling score (the sort is stable),
\* the first `limit` of them, their control ids
lexical(question, idx) ==
  LET scored == {i \in DOMAIN idx : scoreControl(question, idx[i]) > 0}
      ahead(i, j) ==
        \/ scoreControl(question, idx[i]) > scoreControl(question, idx[j])
        \/ scoreControl(question, idx[i]) = scoreControl(question, idx[j]) /\ i < j
      rank(i) == 1 + Cardinality({j \in scored : ahead(j, i)})
      kept == IF Cardinality(scored) < Limit THEN Cardinality(scored) ELSE Limit
  IN [r \in 1..kept |-> idx[CHOOSE i \in scored : rank(i) = r].control_id]

\* (mutant of embeddedDone) step 2 never returns
embeddedNeverDone(chosen) == FALSE

\* `if (chosen.length) return chosen` after step 2
embeddedDone(chosen) == Len(chosen) > 0

\* controlIds is <<>> (undefined) or <<the array>>
selectControlIds(question, controlIds, idx) ==
  LET explicit == IF controlIds # <<>> /\ Len(controlIds[1]) > 0
                  THEN addAll(<<>>, controlIds[1], idx) ELSE <<>>
      embedded == addAll(explicit, extractControlIds(question), idx)
  IN IF Len(explicit) > 0 THEN explicit
     ELSE IF embeddedDone(embedded) THEN embedded
     ELSE embedded \o lexical(question, idx)

\* --------------------------------------------------------------- SpecSelect
InitSelect ==
  /\ InitOut /\ InitRun /\ InitPub /\ IdleList /\ IdleBut("sel")
  /\ sPc = "input"
  /\ sQuestion \in UNION {[1..n -> QuestionTokens] : n \in 0..MaxQuestionLen}
  /\ sControlIds \in {<<>>} \cup {<<c>> : c \in UNION {[1..n -> CallerIds] : n \in 0..MaxCallerIds}}
  /\ sIndex \in Indexes
  /\ sChosen = <<>>

SelectControlIds ==
  /\ sPc = "input"
  /\ sChosen' = selectControlIds(sQuestion, sControlIds, sIndex)
  /\ sPc' = "selected"
  /\ UNCHANGED <<sQuestion, sControlIds, sIndex>>
  /\ UNCHANGED <<outVars, runVars, pubVars, alphaVars, enhVars, relVars, apiVars, textVars, expVars, uiVars>>

NextSelect ==
  \/ SelectControlIds

SpecSelect == InitSelect /\ [][NextSelect]_vars

\* -------------------------------------------------------- under SpecSelect
\* the id is the control_id of an item of the index
InIndex(idx, id) == \E i \in DOMAIN idx : idx[i].control_id = id
\* the id a token or a caller's string stands for: letters raised, blanks off
IdOf(t) == [fam |-> ToUpper(t.fam), num |-> t.num]
\* the positions of the question's id-shaped tokens that are in the index
EmbeddedPositions(question, idx) ==
  {q \in DOMAIN question : question[q].kind = "id" /\ InIndex(idx, IdOf(question[q]))}
\* no id the caller supplied is in the index
NoValidCallerId(controlIds, idx) ==
  controlIds = <<>> \/ \A i \in DOMAIN controlIds[1] : ~InIndex(idx, IdOf(controlIds[1][i]))
\* where the id first appears in the question
FirstPosition(question, idx, id) ==
  Min({q \in EmbeddedPositions(question, idx) : IdOf(question[q]) = id})

\* C19: with no valid caller-supplied id and id-shaped tokens of the index in
\* the question, selectControlIds returns exactly these ids, in canonical
\* form, in order of first appearance, each once, and nothing lexical scoring
\* would add; and on every path each returned id is the control_id of an
\* index item.
C19_EmbeddedIds ==
  sPc = "selected" =>
    /\ (NoValidCallerId(sControlIds, sIndex) /\ EmbeddedPositions(sQuestion, sIndex) # {}) =>
         /\ {sChosen[i] : i \in DOMAIN sChosen}
              = {IdOf(sQuestion[q]) : q \in EmbeddedPositions(sQuestion, sIndex)}
         /\ \A i, j \in DOMAIN sChosen :
              i < j => FirstPosition(sQuestion, sIndex, sChosen[i])
                         < FirstPosition(sQuestion, sIndex, sChosen[j])
    /\ \A i \in DOMAIN sChosen : InIndex(sIndex, sChosen[i])

\* "sc-2 ... ac-1 ... SC-2" is asked with an unknown caller id over an index
\* of AC-1 and SC-2, whose names the question does not spare lexical scoring
C19_Witness ==
  /\ sPc = "selected"
  /\ sControlIds = <<<<[fam |-> "ZZ", num |-> 9, blanks |-> FALSE]>>>>
  /\ Len(sIndex) = 2 /\ sIndex[1].control_id # sIndex[2].control_id
  /\ sQuestion = <<[kind |-> "id", fam |-> "SC", num |-> 2],
                   [kind |-> "id", fam |-> "ac", num |-> 1],
                   [kind |-> "id", fam |-> "SC", num |-> 2]>>
  /\ lexical(sQuestion, sIndex) # <<>>
  /\ sChosen = <<[fam |-> "SC", num |-> 2], [fam |-> "AC", num |-> 1]>>

\* ============================================================ the API worker
\* The bindings: DATA_PREFIX with and without a trailing slash or empty, AI
\* and MODEL_NAME set or not.
Envs == {[DATA_PREFIX |-> p, AI |-> a] : p \in {"", "data/"}, a \in BOOLEAN}

\* joinKey: the prefix without trailing slashes, the path without leading
\* ones (the paths built here start with "controls")
joinKey(prefix, relPath) ==
  LET cleanPrefix == IF prefix = "data/" THEN "data" ELSE prefix IN
  IF cleanPrefix # "" THEN cleanPrefix \o "/" \o relPath ELSE relPath

\* a control id as text
IdText(id) == id.fam \o "-" \o ToString(id.num)

\* The buckets: under the prefix, controls-index.json, controls/<id>.json for
\* AC-1 and SC-2 and controls/AC-1.json.json, each absent, no JSON, or JSON.
Buckets(e) ==
  LET NotJson == [valid |-> FALSE]
      Json(v) == [valid |-> TRUE, value |-> v]
      record(i) == [control_id |-> i, control_name |-> "ALPHA", family_id |-> i.fam]
      fileOf(i) == {<<>>, <<NotJson>>, <<Json(record(i))>>}
      ac1 == [fam |-> "AC", num |-> 1]
      sc2 == [fam |-> "SC", num |-> 2]
      bucketOf(pairs) ==
        [key \in {q[1] : q \in {x \in pairs : x[2] # <<>>}} |->
           (CHOOSE q \in pairs : q[1] = key)[2][1]]
  IN {bucketOf({<<joinKey(e.DATA_PREFIX, "controls-index.json"), i>>,
                <<joinKey(e.DATA_PREFIX, "controls/AC-1.json"), a>>,
                <<joinKey(e.DATA_PREFIX, "controls/SC-2.json"), c>>,
                <<joinKey(e.DATA_PREFIX, "controls/AC-1.json.json"), d>>}) :
        i \in {<<>>, <<NotJson>>} \cup {<<Json(x)>> : x \in Indexes},
        a \in fileOf(ac1), c \in fileOf(sc2), d \in fileOf(ac1)}

\* The requests: method, pathname split after "/api/controls/", JSON body
\* (<<>>: none, or unparsable). A chat payload may carry control_ids (the
\* ChatRequest field) and controlIds.
Requests ==
  LET Payloads ==
        {[question |-> q, control_ids |-> c, controlIds |-> d] :
           q \in {<<>>, <<[kind |-> "word", text |-> "what"]>>,
                  <<[kind |-> "id", fam |-> "SC", num |-> 2]>>},
           c \in {<<>>, <<<<[fam |-> "AC", num |-> 1, blanks |-> FALSE]>>>>,
                  <<<<[fam |-> "ZZ", num |-> 9, blanks |-> FALSE],
                      [fam |-> "sc", num |-> 2, blanks |-> TRUE]>>>>},
           d \in {<<>>, <<<<[fam |-> "AC", num |-> 1, blanks |-> FALSE]>>>>}}
  IN {[method |-> "GET", base |-> "/api/controls/", rest |-> r, body |-> <<>>] :
        r \in {"index", "", "AC-1.json", "SC-2.json", "ZZ-9.json", "AC-1"}}
     \cup {[method |-> "POST", base |-> "/api/chat", rest |-> "", body |-> b] :
             b \in {<<>>} \cup {<<x>> : x \in Payloads}}
     \cup {[method |-> "OPTIONS", base |-> "/api/chat", rest |-> "", body |-> <<>>],
           [method |-> "POST", base |-> "/api/controls/", rest |-> "index", body |-> <<>>],
           [method |-> "GET", base |-> "/", rest |-> "", body |-> <<>>]}

\* getJson: `return null` for a missing object; the try block that parses
\* stands after that return inside the same `if`, so for an object that is
\* there the function runs off its end and the promise resolves to undefined.
\* Nothing is parsed, so nothing is thrown and no value is ever returned.
getJson(b, key) ==
  IF key \notin DOMAIN b THEN [kind |-> "null"] ELSE [kind |-> "undefined"]

\* jsonResponse(req, env, body, status)
jsonResponse(body, status) == [status |-> status, body |-> body]

\* what a handler leaves: its response, the keys it asked for, the ids chosen
Answered(resp, keys, ids) == [response |-> resp, lookedUp |-> keys, selected |-> ids]

handleIndex(e, b) ==
  LET key == joinKey(e.DATA_PREFIX, "controls-index.json")
      idx == getJson(b, key)
  IN IF idx.kind \in {"null", "undefined"}
     THEN Answered(jsonResponse([error |-> "controls-index.json not found"], 404), <<key>>, <<>>)
     ELSE Answered(jsonResponse(idx.value, 200), <<key>>, <<>>)

handleControl(e, b, controlId) ==
  LET key == joinKey(e.DATA_PREFIX, "controls/" \o controlId \o ".json")
      control == getJson(b, key)
  IN IF control.kind \in {"null", "undefined"}
     THEN Answered(jsonResponse([error |-> "control not found"], 404), <<key>>, <<>>)
     ELSE Answered(jsonResponse(control.value, 200), <<key>>, <<>>)

handleChat(e, b, body) ==
  LET indexKey == joinKey(e.DATA_PREFIX, "controls-index.json")
      \* after the loop: controlIds selected, keys asked for, got from them
      respond(controlIds, keys, got) ==
        LET found == SelectSeq(got, LAMBDA g : g.kind = "value")
            loaded == [i \in DOMAIN found |-> found[i].value]
        IN IF Len(found) = 0
           THEN Answered(jsonResponse(
                  [answer |-> "Insufficient information in the retrieved controls to answer this question.",
                   retrieved_controls |-> <<>>, citations |-> <<>>], 200),
                  <<indexKey>> \o keys, <<controlIds>>)
           ELSE IF ~e.AI
           THEN Answered(jsonResponse([error |-> "AI binding or model is not configured"], 500),
                  <<indexKey>> \o keys, <<controlIds>>)
           ELSE Answered(jsonResponse(
                  [answer |-> "MODEL TEXT",
                   retrieved_controls |-> [i \in DOMAIN loaded |-> loaded[i].control_id],
                   citations |-> [i \in DOMAIN loaded |-> [control_id |-> loaded[i].control_id]]],
                  200),
                  <<indexKey>> \o keys, <<controlIds>>)
      load(controlIds, keys) ==
        respond(controlIds, keys, [i \in DOMAIN keys |-> getJson(b, keys[i])])
      retrieve(controlIds) ==
        load(controlIds, [i \in DOMAIN controlIds |->
               joinKey(e.DATA_PREFIX, "controls/" \o IdText(controlIds[i]) \o ".json")])
      withIndex(payload, idx) ==
        IF idx.kind \in {"null", "undefined"}
        THEN Answered(jsonResponse([error |-> "controls-index not found"], 500), <<indexKey>>, <<>>)
        ELSE retrieve(selectControlIds(payload.question, payload.controlIds, idx.value))
  IN IF body = <<>> \/ body[1].question = <<>>
     THEN Answered(jsonResponse([error |-> "question is required"], 400), <<>>, <<>>)
     ELSE withIndex(body[1], getJson(b, indexKey))

\* the router
fetch(e, b, req) ==
  IF req.method = "OPTIONS"
  THEN Answered([status |-> 204, body |-> [empty |-> TRUE]], <<>>, <<>>)
  ELSE IF req.method = "GET" /\ req.base = "/api/controls/" /\ req.rest = "index"
  THEN handleIndex(e, b)
  ELSE IF req.method = "GET" /\ req.base = "/api/controls/"
  THEN IF req.rest = ""
       THEN Answered(jsonResponse([error |-> "control id is required"], 400), <<>>, <<>>)
       ELSE handleControl(e, b, req.rest)
  ELSE IF req.method = "POST" /\ req.base = "/api/chat" /\ req.rest = ""
  THEN handleChat(e, b, req.body)
  ELSE Answered(jsonResponse([error |-> "not found"], 404), <<>>, <<>>)

\* ------------------------------------------------------------------ SpecApi
InitApi ==
  /\ InitOut /\ InitRun /\ InitPub /\ IdleList /\ IdleBut("api")
  /\ env \in Envs
  /\ bucket \in Buckets(env)
  /\ request = <<>>
  /\ response = <<>>
  /\ lookedUp = <<>>
  /\ selected = <<>>

\* one request is answered
Fetch ==
  /\ \E req \in Requests :
       LET out == fetch(env, bucket, req) IN
       /\ request' = <<req>>
       /\ response' = <<out.response>>
       /\ lookedUp' = out.lookedUp
       /\ selected' = out.selected
  /\ UNCHANGED <<env, bucket>>
  /\ UNCHANGED <<outVars, runVars, pubVars, alphaVars, enhVars, relVars, selVars, textVars, expVars, uiVars>>

NextApi ==
  \/ Fetch

SpecApi == InitApi /\ [][NextApi]_vars

\* ---------------------------------------------------------- under SpecApi
\* the request answered last is a GET of /api/controls/<rest>
IsGet(rest) ==
  /\ request # <<>>
  /\ request[1].method = "GET" /\ request[1].base = "/api/controls/" /\ request[1].rest = rest
\* the object under the key is there and is JSON
HoldsJson(key) == key \in DOMAIN bucket /\ bucket[key].valid
IndexKey == joinKey(env.DATA_PREFIX, "controls-index.json")
ControlKey(id) == joinKey(env.DATA_PREFIX, "controls/" \o IdText(id) \o ".json")

\* C15 (as claimed): GET /api/controls/index answers 200 with the stored
\* index array when controls-index.json is in storage under the prefix, and
\* 404 when it is not.
C15_IndexEndpoint ==
  IsGet("index") =>
    /\ HoldsJson(IndexKey) =>
         /\ response[1].status = 200
         /\ response[1].body = bucket[IndexKey].value
    /\ IndexKey \notin DOMAIN bucket => response[1].status = 404

\* C16 (as claimed): GET /api/controls/<control_id>.json looks up exactly the
\* key controls/<control_id>.json under the prefix, answers 200 with the
\* record stored there, and 404 when there is none.
C16_ControlEndpoint ==
  \A id \in ControlIds \cup {[fam |-> "ZZ", num |-> 9]} :
    IsGet(IdText(id) \o ".json") =>
      /\ lookedUp = <<ControlKey(id)>>
      /\ HoldsJson(ControlKey(id)) =>
           /\ response[1].status = 200
           /\ response[1].body = bucket[ControlKey(id)].value
      /\ ControlKey(id) \notin DOMAIN bucket => response[1].status = 404

\* the request answered last is a read (index or control) whose key holds an
\* object that is no JSON
ReadOfNoJson ==
  /\ request # <<>>
  /\ request[1].method = "GET" /\ request[1].base = "/api/controls/" /\ request[1].rest # ""
  /\ Len(lookedUp) = 1
  /\ lookedUp[1] \in DOMAIN bucket /\ ~bucket[lookedUp[1]].valid

\* C17 (as claimed): for a read whose key holds an object that is no JSON,
\* getJson yields the result it yields for an absent key, and the handler
\* answers 404 with the body it gives for an absent key, never an internal
\* error.
C17_FailsClosed ==
  ReadOfNoJson =>
    /\ getJson(bucket, lookedUp[1]) = getJson(Remove(bucket, lookedUp[1]), lookedUp[1])
    /\ response[1].status = 404
    /\ response[1] = fetch(env, Remove(bucket, lookedUp[1]), request[1]).response

\* the request answered last is a chat request with a question, while a JSON
\* index is published
IsChat ==
  /\ request # <<>>
  /\ request[1].method = "POST" /\ request[1].base = "/api/chat"
  /\ request[1].body # <<>> /\ request[1].body[1].question # <<>>
  /\ HoldsJson(IndexKey)
\* the ids of an array that are in the published index, in the array's
\* order, each once, in the index's form
ValidIds(ids) == addAll(<<>>, ids, bucket[IndexKey].value)

\* C18 (as claimed): when the body's control_ids holds at least one id of the
\* index, the controls selected are the supplied ids that are in the index,
\* in the caller's order, each once, whatever the question holds.
C18_CallerIdsFirst ==
  (/\ IsChat
   /\ request[1].body[1].control_ids # <<>>
   /\ ValidIds(request[1].body[1].control_ids[1]) # <<>>)
    => selected = <<ValidIds(request[1].body[1].control_ids[1])>>

\* C20 (as claimed): a chat request with a question for which no control is
\* selected, whichever field the caller's ids are read from, is answered 200
\* with the fixed answer and empty retrieved_controls and citations.
C20_InsufficientAnswer ==
  (/\ IsChat
   /\ selectControlIds(request[1].body[1].question, request[1].body[1].control_ids,
                       bucket[IndexKey].value) = <<>>
   /\ selectControlIds(request[1].body[1].question, request[1].body[1].controlIds,
                       bucket[IndexKey].value) = <<>>)
    => /\ response[1].status = 200
       /\ response[1].body =
            [answer |-> "Insufficient information in the retrieved controls to answer this question.",
             retrieved_controls |-> <<>>, citations |-> <<>>]

\* ======================================================= PDF text parsers
\* Longest text handed to splitControls, in lines.
MaxSplitLen == 4
\* Longest control block handed to the section parsers, in lines / <p> nodes.
MaxBlockLen == 3
\* Longest "Control:" section handed to parseStatementParts, in lines.
MaxPartLines == 4

\* A line of a control block is kept as what the parsers' patterns decide on:
\*   hdr   letters, a colon, and maybe text after it: "Control:", "Note: TEXT"
\*   part  "(" capital ")" text         sub  "(" small letter ")" text
\*   text  any other line
TextOf(line) ==
  IF line.kind = "hdr"
  THEN line.name \o ":" \o (IF line.rest = "" THEN "" ELSE " " \o line.rest)
  ELSE IF line.kind \in {"part", "sub"}
  THEN "(" \o line.id \o ") " \o line.text
  ELSE line.text

\* parseSections (PDF): a line "<letters>: <rest>" whose letters are a key of
\* SECTION_HEADERS opens that section and gives it its rest when there is
\* one; any other line goes to the current section, "statement" at first.
parseSections(lines) ==
  LET SECTION_HEADERS ==
        [n \in {"Control", "Supplemental Guidance", "Control Enhancements",
                "Related controls", "References"} |->
           IF n = "Control" THEN "statement"
           ELSE IF n = "Supplemental Guidance" THEN "supplemental_guidance"
           ELSE IF n = "Control Enhancements" THEN "enhancements"
           ELSE IF n = "Related controls" THEN "related_controls"
           ELSE "references"]
      opened(sectioned, sec) ==
        IF sec \in DOMAIN sectioned THEN sectioned ELSE Put(sectioned, sec, <<>>)
      pushed(sectioned, sec, text) == Put(sectioned, sec, Append(sectioned[sec], text))
      RECURSIVE from(_, _, _)
      from(rest, sectioned, currentSection) ==
        IF rest = <<>> THEN sectioned
        ELSE LET line == Head(rest) IN
          IF line.kind = "hdr" /\ line.name \in DOMAIN SECTION_HEADERS
          THEN from(Tail(rest),
                    IF line.rest # ""
                    THEN pushed(opened(sectioned, SECTION_HEADERS[line.name]),
                                SECTION_HEADERS[line.name], line.rest)
                    ELSE opened(sectioned, SECTION_HEADERS[line.name]),
                    <<SECTION_HEADERS[line.name]>>)
          ELSE IF currentSection = <<>>
          THEN from(Tail(rest),
                    pushed(opened(sectioned, "statement"), "statement", TextOf(line)),
                    <<"statement">>)
          ELSE from(Tail(rest), pushed(sectioned, currentSection[1], TextOf(line)),
                    currentSection)
  IN from(lines, Empty, <<>>)

\* parseControlsFromHtml, the <p> nodes of one control block: "Control:",
\* "Control Enhancements:" and "References:" alone on their line and
\* "Supplemental Guidance:" with or without text set `section`; any other
\* text is pushed to the array of the section that is open.
blockSections(nodes) ==
  LET RECURSIVE from(_, _, _)
      from(rest, arrays, section) ==
        IF rest = <<>> THEN arrays
        ELSE LET node == Head(rest)
                 alone(n) == node.kind = "hdr" /\ node.name = n /\ node.rest = ""
             IN
          IF alone("Control") THEN from(Tail(rest), arrays, <<"statement">>)
          ELSE IF node.kind = "hdr" /\ node.name = "Supplemental Guidance"
          THEN from(Tail(rest),
                    IF node.rest # ""
                    THEN [arrays EXCEPT !.supplemental_guidance = Append(@, node.rest)]
                    ELSE arrays,
                    <<"supplemental_guidance">>)
          ELSE IF alone("Control Enhancements") THEN from(Tail(rest), arrays, <<"enhancements">>)
          ELSE IF alone("References") THEN from(Tail(rest), arrays, <<"references">>)
          ELSE IF section \in {<<"statement">>, <<"supplemental_guidance">>, <<"references">>}
          THEN from(Tail(rest), [arrays EXCEPT ![section[1]] = Append(@, TextOf(node))], section)
          ELSE from(Tail(rest), arrays, section)
  IN from(nodes, [statement |-> <<>>, supplemental_guidance |-> <<>>, references |-> <<>>],
          <<>>)

\* (mutant of continueLine) a continuation always extends the part's text
continueLineInPart(current, text) == [current EXCEPT !.text = JoinTrim(@, text)]

\* a continuation line: `${last.text} ${line}`.trim() on the last subpart of
\* the open part when it has one, else on the part's own text
continueLine(current, text) ==
  IF Len(current.subparts) > 0
  THEN [current EXCEPT !.subparts[Len(current.subparts)].text = JoinTrim(@, text)]
  ELSE [current EXCEPT !.text = JoinTrim(@, text)]

parseStatementParts(lines) ==
  LET RECURSIVE from(_, _, _)
      from(rest, parts, current) ==
        IF rest = <<>> THEN parts \o current
        ELSE LET line == Head(rest) IN
          IF line.kind = "part"
          THEN from(Tail(rest), parts \o current,
                    <<[id |-> line.id, text |-> line.text, subparts |-> <<>>]>>)
          ELSE IF line.kind = "sub" /\ current # <<>>
          THEN from(Tail(rest), parts,
                    <<[current[1] EXCEPT !.subparts = Append(@, [id |-> line.id, text |-> line.text])]>>)
          ELSE IF current # <<>>
          THEN from(Tail(rest), parts, <<continueLine(current[1], TextOf(line))>>)
          ELSE from(Tail(rest), parts, current)
  IN from(lines, <<>>, <<>>)

\* ----------------------------------------------------------------- SpecText
InitText ==
  LET SplitLines ==
        {[kind |-> "start"], [kind |-> "toc"], [kind |-> "o"], [kind |-> "c", text |-> "TWO)"],
         [kind |-> "h", id |-> [fam |-> "AC", num |-> 1], name |-> "ALPHA"],
         [kind |-> "h", id |-> [fam |-> "AC", num |-> 1], name |-> "ALPHA (ONE"],
         [kind |-> "h", id |-> [fam |-> "SC", num |-> 2], name |-> "ALPHA"]}
      BlockLines ==
        {[kind |-> "hdr", name |-> n, rest |-> r] :
           n \in {"Control", "Supplemental Guidance", "Control Enhancements",
                  "Related controls", "References", "Note"},
           r \in {"", "REST"}}
          \cup {[kind |-> "text", text |-> "LINE"]}
      PartLines ==
        {[kind |-> "part", id |-> i, text |-> "P"] : i \in {"A", "B"}}
          \cup {[kind |-> "sub", id |-> i, text |-> "S"] : i \in {"a", "b"}}
          \cup {[kind |-> "text", text |-> "LINE"]}
      SeqsUpTo(S, n) == UNION {[1..m -> S] : m \in 0..n}
  IN /\ InitOut /\ InitRun /\ InitPub /\ IdleList /\ IdleBut("text")
     /\ tPc = "input"
     /\ tOp \in {"split", "sections", "block", "parts"}
     /\ tIn \in IF tOp = "split" THEN SeqsUpTo(SplitLines, MaxSplitLen)
                ELSE IF tOp = "parts" THEN SeqsUpTo(PartLines, MaxPartLines)
                ELSE SeqsUpTo(BlockLines, MaxBlockLen)
     /\ tOut = <<>>

\* const rawControls = splitControls(allLines)
SplitControls ==
  /\ tPc = "input" /\ tOp = "split"
  /\ tOut' = splitControls(tIn)
  /\ tPc' = "parsed"
  /\ UNCHANGED <<tOp, tIn>>
  /\ UNCHANGED <<outVars, runVars, pubVars, alphaVars, enhVars, relVars, apiVars, selVars, expVars, uiVars>>

\* const sections = parseSections(control)
ParseSections ==
  /\ tPc = "input" /\ tOp = "sections"
  /\ tOut' = parseSections(tIn)
  /\ tPc' = "parsed"
  /\ UNCHANGED <<tOp, tIn>>
  /\ UNCHANGED <<outVars, runVars, pubVars, alphaVars, enhVars, relVars, apiVars, selVars, expVars, uiVars>>

\* the loop over blockNodes of the HTML extractor
ParseBlock ==
  /\ tPc = "input" /\ tOp = "block"
  /\ tOut' = blockSections(tIn)
  /\ tPc' = "parsed"
  /\ UNCHANGED <<tOp, tIn>>
  /\ UNCHANGED <<outVars, runVars, pubVars, alphaVars, enhVars, relVars, apiVars, selVars, expVars, uiVars>>

\* extract(): statement_parts from parseStatementParts(sections.statement),
\* statement from sections.statement.join(" ")
ParseStatementParts ==
  /\ tPc = "input" /\ tOp = "parts"
  /\ tOut' = [statement_parts |-> parseStatementParts(tIn),
              statement |-> JoinLines([i \in DOMAIN tIn |-> TextOf(tIn[i])])]
  /\ tPc' = "parsed"
  /\ UNCHANGED <<tOp, tIn>>
  /\ UNCHANGED <<outVars, runVars, pubVars, alphaVars, enhVars, relVars, apiVars, selVars, expVars, uiVars>>

NextText ==
  \/ SplitControls
  \/ ParseSections
  \/ ParseBlock
  \/ ParseStatementParts

SpecText == InitText /\ [][NextText]_vars

\* --------------------------------------------------------- under SpecText
Done(op) == tPc = "parsed" /\ tOp = op
\* a text without its table-of-contents lines
NoToc(lines) == SelectSeq(lines, LAMBDA l : l.kind # "toc")
\* the lines after the first line that includes START_MARKER
AfterStart(lines) ==
  LET starts == {i \in DOMAIN lines : lines[i].kind = "start"} IN
  IF starts = {} THEN <<>>
  ELSE SubSeq(lines, 1 + (CHOOSE i \in starts : \A j \in starts : i <= j), Len(lines))
\* the lines of a kind in a text, the j-th of them, and the lines that follow
\* it up to the next of that kind
Starts(body, kind) == {i \in DOMAIN body : body[i].kind = kind}
NthStart(body, kind, j) ==
  CHOOSE i \in Starts(body, kind) : Cardinality({h \in Starts(body, kind) : h <= i}) = j
BlockOf(body, kind, j) ==
  LET later == {h \in Starts(body, kind) : h > NthStart(body, kind, j)} IN
  SubSeq(body, NthStart(body, kind, j) + 1,
         IF later = {} THEN Len(body) ELSE NthStart(body, kind, j + 1) - 1)
\* `out` is `body` cut at its headings: one control per heading, in order,
\* with the heading's id; the lines up to the next heading are the control's
\* lines, but for a continuation line right after a heading whose name
\* leaves a parenthesis open, which joins the name; at least one control
\* when there is a heading
CutAtHeadings(body, out) ==
  /\ Len(out) = Cardinality(Starts(body, "h"))
  /\ \A j \in DOMAIN out :
       LET h == body[NthStart(body, "h", j)]
           blk == BlockOf(body, "h", j) IN
       /\ out[j].control_id = h.id
       /\ IF h.name = "ALPHA (ONE" /\ blk # <<>> /\ blk[1].kind = "c"
          THEN /\ out[j].control_name = h.name \o " " \o blk[1].text
               /\ out[j].lines = Tail(blk)
          ELSE /\ out[j].control_name = h.name
               /\ out[j].lines = blk
  /\ Starts(body, "h") # {} => Len(out) >= 1

\* C28 (as claimed): for every line sequence, the controls are the text
\* without its table-of-contents lines cut at its headings; only the lines
\* before the first heading are discarded, and a text with a heading yields
\* at least one control.
C28_AsClaimed == Done("split") => CutAtHeadings(NoToc(tIn), tOut)

\* C28 (amended): the controls are the lines after the first line that
\* includes START_MARKER, without the table-of-contents lines, cut at their
\* headings: everything up to that line is discarded, headings included, and
\* a text without it yields no control.
C28_CutAfterStartMarker ==
  Done("split") => CutAtHeadings(NoToc(AfterStart(tIn)), tOut)

\* a heading ahead of the START_MARKER line, then a heading and a line: one
\* control, SC-2, holding that line
C28_Witness ==
  /\ Done("split")
  /\ tIn = <<[kind |-> "h", id |-> [fam |-> "AC", num |-> 1], name |-> "ALPHA"],
             [kind |-> "start"],
             [kind |-> "h", id |-> [fam |-> "SC", num |-> 2], name |-> "ALPHA"],
             [kind |-> "o"]>>
  /\ Len(tOut) = 1
  /\ tOut[1].control_id = [fam |-> "SC", num |-> 2]
  /\ tOut[1].lines = <<[kind |-> "o"]>>

\* the texts of lines
TextsOf(lines) == [i \in DOMAIN lines |-> TextOf(lines[i])]
\* the lines of a block ahead of its first line of a kind
Lead(blk, kind) ==
  IF Starts(blk, kind) = {} THEN blk ELSE SubSeq(blk, 1, NthStart(blk, kind, 1) - 1)

\* C26: statement_parts holds one part per part marker, in order; within the
\* lines of a part, each subpart marker adds a subpart, in order, a
\* continuation line is joined to the last subpart opened before it and, when
\* there is none, to the part's own text; the lines ahead of the first part
\* marker (subpart markers included) are in no part and no subpart, and are
\* kept in the flat statement, which is all lines joined.
C26_StatementParts ==
  Done("parts") =>
    /\ Len(tOut.statement_parts) = Cardinality(Starts(tIn, "part"))
    /\ \A j \in DOMAIN tOut.statement_parts :
         LET part == tOut.statement_parts[j]
             marker == tIn[NthStart(tIn, "part", j)]
             blk == BlockOf(tIn, "part", j) IN
         /\ part.id = marker.id
         /\ part.text = JoinLines(<<marker.text>> \o TextsOf(Lead(blk, "sub")))
         /\ Len(part.subparts) = Cardinality(Starts(blk, "sub"))
         /\ \A m \in DOMAIN part.subparts :
              /\ part.subparts[m].id = blk[NthStart(blk, "sub", m)].id
              /\ part.subparts[m].text =
                   JoinLines(<<blk[NthStart(blk, "sub", m)].text>>
                               \o TextsOf(BlockOf(blk, "sub", m)))
    /\ tOut.statement = JoinLines(TextsOf(tIn))

\* a subpart marker ahead of the first part marker, then "(A)", "(a)" and a
\* continuation: one part A, one subpart a holding the continuation
C26_Witness ==
  /\ Done("parts")
  /\ tIn = <<[kind |-> "sub", id |-> "a", text |-> "S"],
             [kind |-> "part", id |-> "A", text |-> "P"],
             [kind |-> "sub", id |-> "a", text |-> "S"],
             [kind |-> "text", text |-> "LINE"]>>
  /\ tOut.statement_parts =
       <<[id |-> "A", text |-> "P", subparts |-> <<[id |-> "a", text |-> "S LINE"]>>]>>
  /\ tOut.statement = "(a) S (A) P (a) S LINE"

\* the recognized headers and their sections
SectionOf(name) ==
  IF name = "Control" THEN "statement"
  ELSE IF name = "Supplemental Guidance" THEN "supplemental_guidance"
  ELSE IF name = "Control Enhancements" THEN "enhancements"
  ELSE IF name = "Related controls" THEN "related_controls"
  ELSE IF name = "References" THEN "references"
  ELSE ""
Recognized(line) == line.kind = "hdr" /\ SectionOf(line.name) # ""
\* the content lines kept for a section
Content(out, sec) == IF sec \in DOMAIN out THEN out[sec] ELSE <<>>

\* C27 (as claimed): in both paths the lines of a block ahead of its first
\* recognized header are the first content lines of the statement section,
\* and the text after the colon of a recognized header, when there is some,
\* is a content line of that header's section.
C27_SectionDefaults ==
  (Done("sections") \/ Done("block")) =>
    LET ahead == {i \in DOMAIN tIn : \A j \in 1..i : ~Recognized(tIn[j])} IN
    /\ Len(Content(tOut, "statement")) >= Cardinality(ahead)
    /\ \A i \in ahead : Content(tOut, "statement")[i] = TextOf(tIn[i])
    /\ \A i \in DOMAIN tIn :
         (Recognized(tIn[i]) /\ tIn[i].rest # "") =>
           \E n \in DOMAIN Content(tOut, SectionOf(tIn[i].name)) :
             Content(tOut, SectionOf(tIn[i].name))[n] = tIn[i].rest

\* ---------------------------------------------------------------------------
\* scripts/export-assignments-csv.mjs: the assignment placeholder scan.
\*
\* A string field is a sequence of tokens: plain words and placeholders.  A
\* placeholder token [kind |-> "asg", label, words, wide] is a match of
\* assignmentPattern: label is the "Assignment:" text as written (the pattern
\* is case-insensitive), words the text between the label and the closing
\* bracket, wide whether the words are separated by runs of whitespace.
\* ---------------------------------------------------------------------------

MaxScanTokens == 4
MaxTopicLen == 3

\* export-assignments-csv.mjs:27-31.  The text between the brackets, without
\* the label and without one leading "organization-defined" (any case).
parseAssignmentTopic(assignment) ==
  LET inner == assignment.words
      lower(w) == IF w = "Organization-Defined" THEN "organization-defined" ELSE w
  IN IF inner # <<>> /\ lower(inner[1]) = "organization-defined" THEN Tail(inner) ELSE inner

\* export-assignments-csv.mjs:33-73, with the rules in the wrong order: the
\* last rule that matches decides.
categorizeTopicLastRule(topic) ==
  LET lower(w) == IF w = "Frequency" THEN "frequency"
                  ELSE IF w = "Organization-Defined" THEN "organization-defined" ELSE w
      includes(kw) == \E i \in DOMAIN topic :
                        \/ lower(topic[i]) = kw
                        \/ lower(topic[i]) = "transactions" /\ kw = "action"
      any(kws) == \E kw \in kws : includes(kw)
  IN IF any({"test", "assessment"}) THEN "validation"
     ELSE IF any({"external organization", "provider"}) THEN "external_parties"
     ELSE IF any({"component", "system", "device", "media", "account", "application", "service"})
       THEN "scope_inventory"
     ELSE IF any({"security safeguard", "security control", "security function", "security attribute"})
       THEN "security_specification"
     ELSE IF any({"action", "procedure", "step"}) THEN "actions"
     ELSE IF any({"condition", "criteria", "circumstances"}) THEN "conditions"
     ELSE IF any({"number", "threshold", "limit"}) THEN "threshold"
     ELSE IF any({"personnel", "roles", "individuals"}) THEN "roles_responsibilities"
     ELSE IF any({"time period", "timeframe", "period of time"}) THEN "time_window"
     ELSE IF includes("frequency") THEN "cadence"
     ELSE "general"

\* export-assignments-csv.mjs:33-73.  t.includes(kw) on the lower-cased topic:
\* a word includes the keyword it is, and "transactions" includes "action".
categorizeTopic(topic) ==
  LET lower(w) == IF w = "Frequency" THEN "frequency"
                  ELSE IF w = "Organization-Defined" THEN "organization-defined" ELSE w
      includes(kw) == \E i \in DOMAIN topic :
                        \/ lower(topic[i]) = kw
                        \/ lower(topic[i]) = "transactions" /\ kw = "action"
      any(kws) == \E kw \in kws : includes(kw)
  IN IF includes("frequency") THEN "cadence"
     ELSE IF any({"time period", "timeframe", "period of time"}) THEN "time_window"
     ELSE IF any({"personnel", "roles", "individuals"}) THEN "roles_responsibilities"
     ELSE IF any({"number", "threshold", "limit"}) THEN "threshold"
     ELSE IF any({"condition", "criteria", "circumstances"}) THEN "conditions"
     ELSE IF any({"action", "procedure", "step"}) THEN "actions"
     ELSE IF any({"security safeguard", "security control", "security function", "security attribute"})
       THEN "security_specification"
     ELSE IF any({"component", "system", "device", "media", "account", "application", "service"})
       THEN "scope_inventory"
     ELSE IF any({"external organization", "provider"}) THEN "external_parties"
     ELSE IF any({"test", "assessment"}) THEN "validation"
     ELSE "general"

\* export-assignments-csv.mjs:175-220.  walk visits every string of the scope
\* in key order (the fields, then raw_text when the record has one); every
\* match of assignmentPattern is whitespace-normalized and counted in a Map
\* that keeps insertion order.
collectAssignmentsInScope(scopeData) ==
  LET normalizeAssignment(raw) == [raw EXCEPT !.wide = FALSE]
      strings == scopeData.fields \o
                 (IF "raw_text" \in DOMAIN scopeData THEN scopeData.raw_text ELSE <<>>)
      matches(text) == SelectSeq(text, LAMBDA tok : tok.kind = "asg")
      RECURSIVE AllMatches(_)
      AllMatches(n) == IF n = 0 THEN <<>> ELSE AllMatches(n - 1) \o matches(strings[n])
      count(map, assignment) ==
        IF \E i \in DOMAIN map : map[i].assignment = assignment
        THEN [i \in DOMAIN map |->
                IF map[i].assignment = assignment
                THEN [map[i] EXCEPT !.count = @ + 1] ELSE map[i]]
        ELSE Append(map, [assignment |-> assignment, count |-> 1])
      RECURSIVE Fold(_, _)
      Fold(raws, map) ==
        IF raws = <<>> THEN map
        ELSE Fold(Tail(raws), count(map, normalizeAssignment(Head(raws))))
  IN Fold(AllMatches(Len(strings)), <<>>)

\* export-assignments-csv.mjs:222-278 without line 227: the control scope
\* keeps its enhancements.
buildRowsForWholeControl(control) ==
  LET row(scope, entry) ==
        [control_id |-> control.control_id,
         enhancement_id |-> scope,
         assignment_placeholder |-> entry.assignment,
         assignment_topic |-> parseAssignmentTopic(entry.assignment),
         category |-> categorizeTopic(parseAssignmentTopic(entry.assignment)),
         occurrence_count |-> entry.count]
      rowsOf(scope, map) == [i \in DOMAIN map |-> row(scope, map[i])]
      RECURSIVE FieldsOf(_)
      FieldsOf(n) == IF n = 0 THEN <<>>
                     ELSE FieldsOf(n - 1) \o control.enhancements[n].fields
      RECURSIVE EnhRows(_)
      EnhRows(n) ==
        IF n = 0 THEN <<>>
        ELSE EnhRows(n - 1) \o
             rowsOf(<<control.enhancements[n].enhancement_id>>,
                    collectAssignmentsInScope(control.enhancements[n]))
  IN rowsOf(<<>>, collectAssignmentsInScope(
                    [fields |-> control.fields \o FieldsOf(Len(control.enhancements)),
                     raw_text |-> control.raw_text]))
     \o EnhRows(Len(control.enhancements))

\* export-assignments-csv.mjs:222-278.  The control scope is the record
\* without its enhancements key; then one scope per enhancement, in order.
\* enhancement_id "" of a control row is <<>>, an enhancement's is <<id>>.
buildRowsForControl(control) ==
  LET row(scope, entry) ==
        [control_id |-> control.control_id,
         enhancement_id |-> scope,
         assignment_placeholder |-> entry.assignment,
         assignment_topic |-> parseAssignmentTopic(entry.assignment),
         category |-> categorizeTopic(parseAssignmentTopic(entry.assignment)),
         occurrence_count |-> entry.count]
      rowsOf(scope, map) == [i \in DOMAIN map |-> row(scope, map[i])]
      controlScope == [fields |-> control.fields, raw_text |-> control.raw_text]
      RECURSIVE EnhRows(_)
      EnhRows(n) ==
        IF n = 0 THEN <<>>
        ELSE EnhRows(n - 1) \o
             rowsOf(<<control.enhancements[n].enhancement_id>>,
                    collectAssignmentsInScope(control.enhancements[n]))
  IN rowsOf(<<>>, collectAssignmentsInScope(controlScope))
     \o EnhRows(Len(control.enhancements))

\* The inputs.  "rows": a control record as an extractor writes it: its own
\* string fields, its enhancements with theirs, and, for a record of the PDF
\* extractor (extract-annex-3a.mjs:332), raw_text, the lines of the whole
\* control block, the enhancements' lines included.  "classify": one
\* placeholder.
InitExport ==
  LET Asg(label, words, wide) ==
        [kind |-> "asg", label |-> label, words |-> words, wide |-> wide]
      Freq == <<"organization-defined", "frequency">>
      ScanTokens == {[kind |-> "word"], [kind |-> "brk"], [kind |-> "enh"],
                     Asg("Assignment:", Freq, FALSE), Asg("Assignment:", Freq, TRUE),
                     Asg("Assignment:", <<"number">>, FALSE)}
      TopicWords == {"organization-defined", "Organization-Defined", "frequency", "Frequency",
                     "time period", "personnel", "number", "condition", "action",
                     "transactions", "security control", "system", "provider", "test",
                     "values"}
      SeqsUpTo(S, n) == UNION {[1..m -> S] : m \in 0..n}
      RECURSIVE Split(_, _, _)
      Split(toks, sep, cur) ==
        IF toks = <<>> THEN <<cur>>
        ELSE IF Head(toks).kind = sep THEN <<cur>> \o Split(Tail(toks), sep, <<>>)
        ELSE Split(Tail(toks), sep, Append(cur, Head(toks)))
      RECURSIVE Flat(_)
      Flat(ss) == IF ss = <<>> THEN <<>> ELSE Head(ss) \o Flat(Tail(ss))
      RecordOf(toks, pdf) ==
        LET scopes == Split(toks, "enh", <<>>)
            strs == [i \in DOMAIN scopes |-> Split(scopes[i], "brk", <<>>)]
        IN [control_id |-> [fam |-> "AC", num |-> 2],
            fields |-> strs[1],
            enhancements |-> [i \in 1..(Len(strs) - 1) |->
                                [enhancement_id |-> i, fields |-> strs[i + 1]]],
            raw_text |-> IF pdf THEN Flat(strs) ELSE <<>>]
  IN /\ InitOut /\ InitRun /\ InitPub /\ IdleList /\ IdleBut("exp")
     /\ xPc = "input"
     /\ xOp \in {"rows", "classify"}
     /\ xIn \in IF xOp = "rows"
                THEN {RecordOf(toks, pdf) : toks \in SeqsUpTo(ScanTokens, MaxScanTokens),
                                            pdf \in BOOLEAN}
                ELSE {Asg(label, words, FALSE) :
                        label \in {"Assignment:", "ASSIGNMENT:"},
                        words \in SeqsUpTo(TopicWords, MaxTopicLen)}
     /\ xOut = <<>>

\* export-assignments-csv.mjs:301: rows.push(...buildRowsForControl(parsed)).
BuildRows ==
  /\ xPc = "input"
  /\ xOp = "rows"
  /\ xOut' = buildRowsForControl(xIn)
  /\ xPc' = "built"
  /\ UNCHANGED <<xOp, xIn>>
  /\ UNCHANGED <<outVars, runVars, pubVars, alphaVars, enhVars, relVars, apiVars, selVars, textVars, uiVars>>

\* export-assignments-csv.mjs:231-232: the topic and the category of one
\* placeholder.
Classify ==
  /\ xPc = "input"
  /\ xOp = "classify"
  /\ xOut' = [assignment_topic |-> parseAssignmentTopic(xIn),
              category |-> categorizeTopic(parseAssignmentTopic(xIn))]
  /\ xPc' = "built"
  /\ UNCHANGED <<xOp, xIn>>
  /\ UNCHANGED <<outVars, runVars, pubVars, alphaVars, enhVars, relVars, apiVars, selVars, textVars, uiVars>>

NextExport ==
  \/ BuildRows
  \/ Classify

SpecExport == InitExport /\ [][NextExport]_vars

\* --- the scan's rows

ScanDone == xPc = "built" /\ xOp = "rows"

\* the scopes of the scanned record: <<>> is the control without its
\* enhancements, <<i>> its i-th enhancement
Scopes == {<<>>} \cup {<<i>> : i \in DOMAIN xIn.enhancements}

\* the string fields of a scope
ScopeStrings(scope) ==
  IF scope = <<>> THEN xIn.fields \o xIn.raw_text
  ELSE xIn.enhancements[scope[1]].fields

\* tok is an occurrence of the placeholder with this label and these words,
\* however its whitespace is written
IsOccurrence(tok, label, words) ==
  tok.kind = "asg" /\ tok.label = label /\ tok.words = words

Occurrences(strings, label, words) ==
  Cardinality({pos \in (DOMAIN strings) \X (1..MaxScanTokens + 1) :
                 /\ pos[2] \in DOMAIN strings[pos[1]]
                 /\ IsOccurrence(strings[pos[1]][pos[2]], label, words)})

\* the placeholders written anywhere in the record, as <<label, words>>
PlaceholdersIn(strings) ==
  {<<strings[i][j].label, strings[i][j].words>> :
     <<i, j>> \in {pos \in (DOMAIN strings) \X (1..MaxScanTokens + 1) :
                     /\ pos[2] \in DOMAIN strings[pos[1]]
                     /\ strings[pos[1]][pos[2]].kind = "asg"}}

RowsFor(scope, label, words) ==
  {i \in DOMAIN xOut : /\ xOut[i].enhancement_id = scope
                       /\ xOut[i].assignment_placeholder.label = label
                       /\ xOut[i].assignment_placeholder.words = words}

\* C21: the scan emits exactly one row per pair (scope, distinct
\* whitespace-normalized placeholder), a scope being the control without its
\* enhancements or one single enhancement, and none for a placeholder the
\* scope does not contain; the row's occurrence_count is the number of
\* occurrences of the placeholder in the string fields of that scope, so the
\* occurrences in an enhancement's fields are not added to the control's row.
C21_OneRowPerScopePlaceholder ==
  ScanDone =>
    /\ \A i \in DOMAIN xOut :
         /\ xOut[i].enhancement_id \in Scopes
         /\ xOut[i].control_id = xIn.control_id
         /\ ~xOut[i].assignment_placeholder.wide
         /\ Occurrences(ScopeStrings(xOut[i].enhancement_id),
                        xOut[i].assignment_placeholder.label,
                        xOut[i].assignment_placeholder.words) > 0
    /\ \A scope \in Scopes :
         \A ph \in PlaceholdersIn(ScopeStrings(scope)) :
           /\ Cardinality(RowsFor(scope, ph[1], ph[2])) = 1
           /\ \A i \in RowsFor(scope, ph[1], ph[2]) :
                xOut[i].occurrence_count = Occurrences(ScopeStrings(scope), ph[1], ph[2])

\* a scanned record whose control fields hold a placeholder once and whose
\* first enhancement holds the same placeholder twice, once with wide
\* whitespace: two rows, counting 1 and 2
C21_Witness ==
  /\ ScanDone
  /\ xIn.raw_text = <<>>
  /\ Len(xIn.enhancements) = 1
  /\ \E ph \in PlaceholdersIn(xIn.fields) :
       /\ Occurrences(xIn.fields, ph[1], ph[2]) = 1
       /\ Occurrences(xIn.enhancements[1].fields, ph[1], ph[2]) = 2
       /\ \E s \in DOMAIN xIn.enhancements[1].fields :
            \E j \in DOMAIN xIn.enhancements[1].fields[s] :
              /\ xIn.enhancements[1].fields[s][j].kind = "asg"
              /\ xIn.enhancements[1].fields[s][j].wide
       /\ Len(xOut) = 2
       /\ xOut[1].occurrence_count = 1
       /\ xOut[2].occurrence_count = 2

\* --- the classification

ClassifyDone == xPc = "built" /\ xOp = "classify"

\* the keyword rules in their priority order
Rules ==
  << [category |-> "cadence", keywords |-> {"frequency"}],
     [category |-> "time_window", keywords |-> {"time period", "timeframe", "period of time"}],
     [category |-> "roles_responsibilities", keywords |-> {"personnel", "roles", "individuals"}],
     [category |-> "threshold", keywords |-> {"number", "threshold", "limit"}],
     [category |-> "conditions", keywords |-> {"condition", "criteria", "circumstances"}],
     [category |-> "actions", keywords |-> {"action", "procedure", "step"}],
     [category |-> "security_specification",
      keywords |-> {"security safeguard", "security control", "security function",
                    "security attribute"}],
     [category |-> "scope_inventory",
      keywords |-> {"component", "system", "device", "media", "account", "application",
                    "service"}],
     [category |-> "external_parties", keywords |-> {"external organization", "provider"}],
     [category |-> "validation", keywords |-> {"test", "assessment"}] >>

\* the keywords a word of a topic contains, whatever its case
KeywordsOf(word) ==
  IF word \in {"frequency", "Frequency"} THEN {"frequency"}
  ELSE IF word = "transactions" THEN {"action"}
  ELSE {word}

RuleMatches(r, topic) ==
  \E i \in DOMAIN topic : KeywordsOf(topic[i]) \cap Rules[r].keywords # {}

IsOrganizationDefined(word) == word \in {"organization-defined", "Organization-Defined"}

\* C22: classification is total and decided by the first matching keyword
\* rule in the fixed priority order: the category is one of the fixed
\* categories, general when no rule matches; the topic is the placeholder
\* text without brackets, "Assignment:" label and leading
\* "organization-defined"; a topic containing "frequency" is cadence
\* whatever other keywords it contains.
C22_FirstRuleDecides ==
  ClassifyDone =>
    LET topic == xOut.assignment_topic
        matching == {r \in DOMAIN Rules : RuleMatches(r, topic)}
    IN /\ topic = IF xIn.words # <<>> /\ IsOrganizationDefined(xIn.words[1])
                  THEN SubSeq(xIn.words, 2, Len(xIn.words)) ELSE xIn.words
       /\ xOut.category \in {Rules[r].category : r \in DOMAIN Rules} \cup {"general"}
       /\ matching = {} => xOut.category = "general"
       /\ \A r \in matching :
            (\A q \in matching : r <= q) => xOut.category = Rules[r].category
       /\ (\E i \in DOMAIN topic : "frequency" \in KeywordsOf(topic[i]))
            => xOut.category = "cadence"

\* a placeholder "[Assignment: organization-defined personnel frequency]":
\* the topic keeps both words, two rules match, and cadence wins although
\* the roles keyword comes first in the text
C22_Witness ==
  /\ ClassifyDone
  /\ Len(xIn.words) = 3
  /\ IsOrganizationDefined(xIn.words[1])
  /\ xOut.assignment_topic = <<"personnel", "frequency">>
  /\ RuleMatches(3, xOut.assignment_topic)
  /\ xOut.category = "cadence"

\* ---------------------------------------------------------------------------
\* The browser UI (App): the index load and the control selection.
\*
\* uLoad is [index, metadata], each "pending", "ok" or "fail": the two
\* fetches of loadIndex.  uFetches holds the control ids of the fetchControl
\* calls in flight, oldest first.  uHistory is [entries, pos]: the control
\* parameter of every history entry (<<>> when the URL has none) and the
\* current entry.
\* ---------------------------------------------------------------------------

MaxHistory == 3
MaxInFlight == 2

\* the control ids of the published index
UiItems == {"AC-1", "AC-2"}

\* part_002:534-557 with fetchCatalogMetadata() awaited as it is, without
\* .catch(() => null): a failed metadata fetch rejects the Promise.all.
loadIndexStrict(load) ==
  IF load.index = "fail" \/ load.metadata = "fail" THEN "error"
  ELSE IF load.index = "ok" /\ load.metadata = "ok" THEN "success"
  ELSE "pending"

\* part_002:541-557: the outcome of Promise.all([fetchIndex(),
\* fetchCatalogMetadata().catch(() => null)]).  It rejects as soon as the
\* index fetch fails, and resolves when the index fetch has succeeded and the
\* metadata fetch has settled either way.
loadIndex(load) ==
  IF load.index = "fail" THEN "error"
  ELSE IF load.index = "ok" /\ load.metadata # "pending" THEN "success"
  ELSE "pending"

\* part_002:375-379 and 79-81: the index item whose canonical id (upper case,
\* letters and digits only) equals the value's, <<>> (null) when none.
resolveControlIdFromIndex(value, items) ==
  LET canonicalControlId(v) ==
        IF v \in {"AC-1", "ac-1"} THEN "AC1"
        ELSE IF v \in {"AC-2", "ac-2"} THEN "AC2" ELSE "ZZ9"
      exact == {item \in items : canonicalControlId(item) = canonicalControlId(value)}
  IN IF exact = {} THEN <<>> ELSE <<CHOOSE item \in exact : TRUE>>

\* part_002:628-640 up to the await: the selection, the loading state, the
\* URL (406-419: pushState drops the forward entries) and the fetch that
\* starts.  control keeps its value.
handleSelect(controlId, updateUrl) ==
  /\ uSelectedId' = <<controlId>>
  /\ uControlState' = "loading"
  /\ uHistory' =
       IF updateUrl = "push"
       THEN [entries |-> Append(SubSeq(uHistory.entries, 1, uHistory.pos), <<controlId>>),
             pos |-> uHistory.pos + 1]
       ELSE IF updateUrl = "replace"
       THEN [uHistory EXCEPT !.entries[uHistory.pos] = <<controlId>>]
       ELSE uHistory
  /\ uFetches' = Append(uFetches, controlId)
  /\ UNCHANGED uControl

\* App is mounted and its first effect has run (part_002:520-538, 560): the
\* index is loading, nothing is selected.  The page was opened at a URL
\* without a control parameter or with one as a user writes it.
InitUi ==
  /\ InitOut /\ InitRun /\ InitPub /\ IdleList /\ IdleBut("ui")
  /\ uMounted = TRUE
  /\ uLoad = [index |-> "pending", metadata |-> "pending"]
  /\ uIndexState = "loading"
  /\ uMetadata = <<>>
  /\ uSelectedId = <<>>
  /\ uControl = <<>>
  /\ uControlState = "idle"
  /\ uFetches = <<>>
  /\ \E url \in {<<>>, <<"ac-2">>, <<"ZZ-9">>} : uHistory = [entries |-> <<url>>, pos |-> 1]

\* One of the two fetches of loadIndex settles (api.ts:26-39, 45-47), and,
\* when that settles the Promise.all, the rest of loadIndex runs
\* (part_002:546-557), unless cancelled.  On success the effect of 650-662
\* runs too and selects the control named in the URL.
LoadSettles ==
  \E which \in {"index", "metadata"}, result \in {"ok", "fail"} :
    /\ uLoad[which] = "pending"
    /\ uLoad' = [uLoad EXCEPT ![which] = result]
    /\ UNCHANGED uMounted
    /\ IF ~uMounted \/ loadIndex(uLoad) # "pending" \/ loadIndex(uLoad') = "pending"
       THEN UNCHANGED <<uIndexState, uMetadata, uSelectedId, uControl, uControlState,
                        uFetches, uHistory>>
       ELSE IF loadIndex(uLoad') = "error"
       THEN /\ uIndexState' = "error"
            /\ UNCHANGED <<uMetadata, uSelectedId, uControl, uControlState, uFetches, uHistory>>
       ELSE /\ uIndexState' = "success"
            /\ uMetadata' = IF uLoad'.metadata = "ok" THEN <<"metadata">> ELSE <<>>
            /\ LET url == uHistory.entries[uHistory.pos]
                   resolved == IF url = <<>> THEN <<>>
                               ELSE resolveControlIdFromIndex(url[1], UiItems)
               IN IF url = <<>>
                  THEN UNCHANGED <<uSelectedId, uControl, uControlState, uFetches, uHistory>>
                  ELSE handleSelect(IF resolved = <<>> THEN url[1] ELSE resolved[1], "replace")
    /\ UNCHANGED <<outVars, runVars, pubVars, alphaVars, enhVars, relVars, apiVars, selVars, textVars, expVars>>

\* part_002:870: a click on an item of the list.
Select ==
  \E controlId \in UiItems :
    /\ uMounted
    /\ uIndexState = "success"
    /\ Len(uFetches) < MaxInFlight
    /\ uHistory.pos < MaxHistory
    /\ handleSelect(controlId, "push")
    /\ UNCHANGED <<uMounted, uLoad, uIndexState, uMetadata>>
    /\ UNCHANGED <<outVars, runVars, pubVars, alphaVars, enhVars, relVars, apiVars, selVars, textVars, expVars>>

\* part_002:640-647: a fetchControl in flight settles, whichever it is: with
\* the record of the id it asked for (api.ts:41-43), or with an error.  An
\* unmounted component's setters change nothing.
ControlSettles ==
  \E i \in DOMAIN uFetches, ok \in BOOLEAN :
    /\ ok => uFetches[i] \in UiItems
    /\ uFetches' = [j \in 1..(Len(uFetches) - 1) |->
                      IF j < i THEN uFetches[j] ELSE uFetches[j + 1]]
    /\ IF ~uMounted THEN UNCHANGED <<uControl, uControlState>>
       ELSE IF ok
       THEN /\ uControl' = <<[control_id |-> uFetches[i]]>>
            /\ uControlState' = "success"
       ELSE /\ uControl' = <<>>
            /\ uControlState' = "error"
    /\ UNCHANGED <<uMounted, uLoad, uIndexState, uMetadata, uSelectedId, uHistory>>
    /\ UNCHANGED <<outVars, runVars, pubVars, alphaVars, enhVars, relVars, apiVars, selVars, textVars, expVars>>

\* part_002:746-756.
GoHome ==
  /\ uMounted
  /\ uHistory.pos < MaxHistory
  /\ uHistory' = [entries |-> Append(SubSeq(uHistory.entries, 1, uHistory.pos), <<>>),
                  pos |-> uHistory.pos + 1]
  /\ uSelectedId' = <<>>
  /\ uControl' = <<>>
  /\ uControlState' = "idle"
  /\ UNCHANGED <<uMounted, uLoad, uIndexState, uMetadata, uFetches>>
  /\ UNCHANGED <<outVars, runVars, pubVars, alphaVars, enhVars, relVars, apiVars, selVars, textVars, expVars>>

\* part_002:664-685: the browser goes back or forward one entry and fires
\* popstate.
PopState ==
  \E delta \in {-1, 1} :
    LET to == uHistory.pos + delta
    IN /\ uMounted
       /\ to \in DOMAIN uHistory.entries
       /\ IF uHistory.entries[to] = <<>>
          THEN /\ uSelectedId' = <<>>
               /\ uControl' = <<>>
               /\ uControlState' = "idle"
               /\ uHistory' = [uHistory EXCEPT !.pos = to]
               /\ UNCHANGED uFetches
          ELSE /\ Len(uFetches) < MaxInFlight
               /\ LET value == uHistory.entries[to][1]
                      resolved == resolveControlIdFromIndex(
                                    value, IF uIndexState = "success" THEN UiItems ELSE {})
                  IN /\ uSelectedId' = <<IF resolved = <<>> THEN value ELSE resolved[1]>>
                     /\ uControlState' = "loading"
                     /\ uFetches' = Append(uFetches, uSelectedId'[1])
                     /\ uHistory' = [uHistory EXCEPT !.pos = to]
                     /\ UNCHANGED uControl
       /\ UNCHANGED <<uMounted, uLoad, uIndexState, uMetadata>>
       /\ UNCHANGED <<outVars, runVars, pubVars, alphaVars, enhVars, relVars, apiVars, selVars, textVars, expVars>>

\* part_002:562-564 and 684: the cleanup of the effects.
Unmount ==
  /\ uMounted
  /\ uMounted' = FALSE
  /\ UNCHANGED <<uLoad, uIndexState, uMetadata, uSelectedId, uControl, uControlState, uFetches, uHistory>>
  /\ UNCHANGED <<outVars, runVars, pubVars, alphaVars, enhVars, relVars, apiVars, selVars, textVars, expVars>>

NextUi ==
  \/ LoadSettles
  \/ Select
  \/ ControlSettles
  \/ GoHome
  \/ PopState
  \/ Unmount

SpecUi == InitUi /\ [][NextUi]_vars

\* --- the control on display

\* the detail pane shows a control card (part_002:898)
Displayed == uControlState = "success" /\ uControl # <<>>

\* C29: whenever a control is displayed (controlState is success and control
\* is non-null) its control_id is the currently selected id, whatever the
\* order in which selections, go-home clicks, back/forward navigations and
\* fetch completions happened.
C29_DisplayedIsSelected ==
  Displayed => uSelectedId = <<uControl[1].control_id>>

\* --- the index load

\* C30: the index load leaves loading for exactly one of success and error
\* and stays there; the index fetch alone decides which: success when it
\* succeeded, also when the metadata fetch failed (catalogMetadata is then
\* null), error only when it failed; and once the component is unmounted a
\* completion changes no state.
C30_IndexLoad ==
  [][/\ uIndexState' \in {"loading", "success", "error"}
     /\ uIndexState # "loading" => uIndexState' = uIndexState
     /\ uIndexState' = "success" => uLoad'.index = "ok"
     /\ uIndexState' = "error" => uLoad'.index = "fail"
     /\ (uMounted' /\ uLoad'.index = "fail") => uIndexState' = "error"
     /\ (uMounted' /\ uLoad'.index = "ok" /\ uLoad'.metadata # "pending")
          => /\ uIndexState' = "success"
             /\ uLoad'.metadata = "fail" => uMetadata' = <<>>
     /\ ~uMounted => UNCHANGED <<uIndexState, uMetadata, uSelectedId, uControl, uControlState>>
    ]_vars

\* the index fetch succeeded and the metadata fetch failed: the index is
\* shown and catalogMetadata is null
C30_Witness ==
  /\ uIndexState = "success"
  /\ uLoad = [index |-> "ok", metadata |-> "fail"]
  /\ uMetadata = <<>>

====
